---------------------------- MODULE Spec2Model ----------------------------
(***************************************************************************)
(* Graph traversals of the CSKG database tools (src/src/core):             *)
(*   - shortest_path / process_level / reconstruct_bidirectional_path      *)
(*     (core/shortest_path.py): bidirectional BFS over a remote store;     *)
(*   - find_nodes_at_distance / filter_results (core/distant_nodes.py):    *)
(*     distance-bounded search with synonym/antonym signs.                 *)
(*                                                                         *)
(* Node ids are non-empty strings in the program (the ingestion skips rows *)
(* with an empty id, rdf_convert.py line 220, so "if intersection" is the  *)
(* test "is not None"); here they are the positive integers 1..NumNodes,   *)
(* and 0 is an id the store does not hold.                                 *)
(* Python's None is the value None, a missing dict key is a key outside    *)
(* the DOMAIN of the function that models the dict.                        *)
(***************************************************************************)
EXTENDS Integers, Sequences, FiniteSets, TLC

\* ------------------------------------------------------------------ bounds
\* Number of nodes the store holds (ids 1..NumNodes).
NumNodes == 4
\* Largest number of undirected edges (self-loops included) of a store graph.
MaxStoreEdges == 5
\* Number of node ids of a relationship graph (ids 1..NumWords).
NumWords == 3
\* Largest number of relations inserted into a relationship graph.
MaxRelations == 3
\* Largest target distance of a distance search.
MaxDistance == 3

\* ------------------------------------------------------- program constants
\* best_path_length = float("inf"): larger than any path length.
Inf == 1000000

None == -1
StoreNodes == 1 .. NumNodes
\* The ids a caller may pass: the store's nodes and 0, which does not exist.
Ids == 0 .. NumNodes
\* The root searched from. The graphs range over every labelling of the
\* node ids, so one root stands for all of them.
Roots == {1}

VARIABLES
  \* ---- the store and the arguments of shortest_path
  store,          \* set of undirected edges {u, v} ({u} is a self-loop)
  id1, id2,
  \* ---- shortest_path's locals
  pc,             \* "call" | "loop" | "fwd" | "bwd" | "after" | "done"
  queue,          \* [fwd |-> forward_queue, bwd |-> backward_queue]
  visited,        \* [fwd |-> forward_visited, bwd |-> backward_visited]
  distance,       \* [fwd |-> forward_distance, bwd |-> backward_distance]
  node_labels,
  best_path_length,
  best_intersection,
  \* ---- process_level's locals
  level_left,     \* iterations left of "for _ in range(level_size)"
  lvl_intersection,
  lvl_path_length,
  \* ---- what the call ended with
  outcome,        \* "none" | "path" | "empty" | "not_found"
                  \* | "store_failure" | "key_error"
  path,           \* the returned list
  \* ---- the store's faults: whether its queries may fail, and the nodes
  \* ---- that carry no id predicate
  store_flaky,
  sp_noid,
  \* ---- history: the number of store queries issued, and whether one failed
  store_queries,
  failed,
  \* ---- history: the neighbor queries issued, in order, as <<dir, id>>
  queried,
  \* ---- find_nodes_at_distance's arguments and locals
  dn_graph,       \* graph: node id -> list of <<neighbor id, is_synonym_edge>>
  dn_node_id,     \* node_id, the root
  dn_distance,    \* distance, the target distance
  dn_pc,          \* "call" | "idle" | "search" | "done" | "exit"
  dn_queue,       \* deque of <<node id, distance, is_synonym>>
  dn_visited,     \* dict in insertion order: list of [node, dist, signs]
  dn_popped,      \* history: the entries popped so far, in order
  \* ---- filter_results' argument and the two filtered lists
  nodes_info,
  dn_results,     \* [syn |-> want_synonyms=True list, ant |-> False list]
  \* ---- find_distant_relationships: what the call ended with, and history:
  \* ---- the number of relation-tree queries issued
  dn_outcome,     \* "none" | "returned" | "not_found"
  dn_tree_queries,
  \* ---- the typed store and the argument of get_similar_nodes
  sim_store,      \* set of directed edges <<from, to, edge type>>
  sim_noid,       \* the store nodes that carry no id predicate
  sim_node_id,
  \* ---- get_similar_nodes' locals
  sim_pc,         \* "idle" | "call" | "successors" | "predecessors" | "done"
  node_data,
  similar_nodes,  \* dict in insertion order: list of its values
  \* ---- what the call ended with, and what it printed
  sim_outcome,    \* "none" | "printed" | "error"
  sim_result,
  \* ---- edge_types_match's arguments and its return value
  em_pc,          \* "idle" | "call" | "done"
  edge_type1, edge_type2,
  em_result,
  \* ---- build_relationship_graph's argument and locals; its graph and
  \* ---- nodes_info are dn_graph and nodes_info above
  bt_pc,          \* "idle" | "call" | "loop" | "done"
  results,
  distant_nodes,  \* the entries "for node in distant_nodes" has yet to visit
  bt_raised       \* an exception left build_relationship_graph

spVars == <<store, id1, id2, pc, queue, visited, distance, node_labels,
            best_path_length, best_intersection, level_left,
            lvl_intersection, lvl_path_length, outcome, path, queried,
            store_flaky, sp_noid, store_queries, failed>>

\* The store and its faults, which no step changes.
storeVars == <<store, id1, id2, store_flaky, sp_noid>>

dnVars == <<dn_graph, dn_node_id, dn_distance, dn_pc, dn_queue, dn_visited,
            dn_popped, nodes_info, dn_results, dn_outcome, dn_tree_queries>>

smVars == <<sim_store, sim_noid, sim_node_id, sim_pc, node_data,
            similar_nodes, sim_outcome, sim_result>>

emVars == <<em_pc, edge_type1, edge_type2, em_result>>

btVars == <<bt_pc, results, distant_nodes, bt_raised>>

vars == <<spVars, dnVars, smVars, emVars, btVars>>

\* The variables the shortest path search, the distance search and the
\* similarity matcher leave alone.
nonPathVars == <<dnVars, smVars, emVars, btVars>>
nonDistVars == <<spVars, smVars, emVars, btVars>>
nonSimVars == <<spVars, dnVars, emVars, btVars>>
nonMatchVars == <<spVars, dnVars, smVars, btVars>>
nonBuildVars == <<spVars, dn_node_id, dn_distance, dn_pc, dn_queue, dn_visited,
                  dn_popped, dn_results, dn_outcome, dn_tree_queries, smVars,
                  emVars>>

\* build_relationship_graph is not running on its own.
BuildIdle ==
  /\ bt_pc = "idle"
  /\ results = <<>>
  /\ distant_nodes = <<>>
  /\ bt_raised = FALSE

\* edge_types_match is not running on its own.
MatchIdle ==
  /\ em_pc = "idle"
  /\ edge_type1 = <<>>
  /\ edge_type2 = <<>>
  /\ em_result = FALSE

\* The similarity matcher is not running.
SimIdle ==
  /\ sim_store = {}
  /\ sim_noid = {}
  /\ sim_node_id = 0
  /\ sim_pc = "idle"
  /\ node_data = <<>>
  /\ similar_nodes = <<>>
  /\ sim_outcome = "none"
  /\ sim_result = <<>>

\* ------------------------------------------------------------------ store

\* Ascending sequence of a finite set of integers (the store answers in uid
\* order; every labelling of the graph is enumerated, so this is any order).
RECURSIVE SortedSeq(_)
SortedSeq(S) ==
  IF S = {} THEN <<>>
  ELSE LET m == CHOOSE x \in S : \A y \in S : x <= y
       IN  <<m>> \o SortedSeq(S \ {m})

\* The store's label of a node; nodes with an even id carry no label (the
\* ingestion leaves nodes without a label, rdf_convert.py lines 244-252).
HasStoreLabel(n) == n % 2 = 1
StoreLabel(n) == 10 + n

\* Mutant: the count is not read, any answer of the store counts as found.
if_exist_AnyAnswer(n) == TRUE

\* if_exist(node_id): the store counts the nodes with that id.
if_exist(n) == n \in StoreNodes

\* Mutant: a failure of the client is swallowed, the read returns nothing.
dgraph_read_Swallows(fails) == FALSE

\* dgraph_read (utils.py lines 86-101): what the client raises is raised
\* again; fails tells whether the client's query fails.
dgraph_read_raises(fails) == fails

\* Whether a query fails: never on a store that is not flaky.
QueryOutcomes(flaky) == IF flaky THEN BOOLEAN ELSE {FALSE}

\* NEIGHBORS_QUERY: successors and predecessors of the node, direction
\* ignored, each as {id, label}; a field is left out when the node does not
\* carry the predicate, and a node that carries neither yields no entry.
UndirectedNeighbors(E, n) == {m \in StoreNodes : {n, m} \in E}
NeighborEntry(m, noid) ==
  IF m \in noid THEN [label |-> StoreLabel(m)]
  ELSE IF HasStoreLabel(m) THEN [id |-> m, label |-> StoreLabel(m)]
  ELSE [id |-> m]
NeighborsQuery(E, noid, n) ==
  LET s == SortedSeq({m \in UndirectedNeighbors(E, n) :
                        m \notin noid \/ HasStoreLabel(m)})
  IN  [i \in 1 .. Len(s) |-> NeighborEntry(s[i], noid)]

\* dict.get(key, default)
DictGet(d, k, default) == IF k \in DOMAIN d THEN d[k] ELSE default


\* ------------------------------------------------- shortest_path: helpers

Opposite(dir) == IF dir = "fwd" THEN "bwd" ELSE "fwd"

\* Mutant: queue.append sits outside the visited test, so a neighbor is
\* enqueued every time it is seen.
VisitNeighbor_AlwaysEnqueues(st, current_id, node) ==
  LET neighbor_id == node["id"]
      labelled == [st EXCEPT !.labels =
                     (neighbor_id :> DictGet(node, "label", neighbor_id)) @@ @]
  IN  IF neighbor_id \notin DOMAIN st.vis
      THEN [labelled EXCEPT
              !.vis  = (neighbor_id :> current_id) @@ @,
              !.dist = (neighbor_id :> (st.dist[current_id] + 1)) @@ @,
              !.q    = Append(@, neighbor_id)]
      ELSE [labelled EXCEPT !.q = Append(@, neighbor_id)]

\* One iteration of "for node in neighbors" of process_level. st holds the
\* direction's visited/distance maps, its queue and node_labels, and
\* raised: node["id"] raises KeyError on an entry without an id.
VisitNeighbor(st, current_id, node) ==
  LET neighbor_id == node["id"]
      labelled == [st EXCEPT !.labels =
                     (neighbor_id :> DictGet(node, "label", neighbor_id)) @@ @]
  IN  IF "id" \notin DOMAIN node THEN [st EXCEPT !.raised = TRUE]
      ELSE IF neighbor_id \notin DOMAIN st.vis
      THEN [labelled EXCEPT
              !.vis  = (neighbor_id :> current_id) @@ @,
              !.dist = (neighbor_id :> (st.dist[current_id] + 1)) @@ @,
              !.q    = Append(@, neighbor_id)]
      ELSE labelled

\* The loop "for node in neighbors", from entry i on.
RECURSIVE VisitNeighbors(_, _, _, _)
VisitNeighbors(st, current_id, neighbors, i) ==
  IF st.raised \/ i > Len(neighbors) THEN st
  ELSE VisitNeighbors(VisitNeighbor(st, current_id, neighbors[i]),
                      current_id, neighbors, i + 1)

\* "if current_id in opposite_visited": the popped node is an intersection
\* candidate of length current_distance + opposite_distance.
IsIntersection(current_id, opposite_visited) ==
  current_id \in DOMAIN opposite_visited

\* The main loop's test after a level: the level's intersection (None when
\* the level found none) improves on the best path length so far.
Improves(intersection, fdist, bdist, best) ==
  /\ intersection # None
  /\ fdist[intersection] + bdist[intersection] < best

\* Mutant: the pruning test fires two steps late.
PruneCondition_Late(fq, bq, fdist, bdist, best) ==
  /\ fq # <<>>
  /\ bq # <<>>
  /\ fdist[Head(fq)] + bdist[Head(bq)] >= best + 2

\* Mutant: the loop is left after the round in which the heads are two or
\* more hops apart, whatever the best length.
PruneCondition_IgnoresBest(fq, bq, fdist, bdist, best) ==
  /\ fq # <<>>
  /\ bq # <<>>
  /\ fdist[Head(fq)] + bdist[Head(bq)] >= 2

\* The pruning test that ends the main loop.
PruneCondition(fq, bq, fdist, bdist, best) ==
  /\ fq # <<>>
  /\ bq # <<>>
  /\ fdist[Head(fq)] + bdist[Head(bq)] >= best

\* Mutant: the main loop runs while either queue holds a node.
LoopCondition_Either(fq, bq) == fq # <<>> \/ bq # <<>>

\* The main loop's condition.
LoopCondition(fq, bq) == fq # <<>> /\ bq # <<>>

PathItem(labels, n) == [id |-> n, label |-> DictGet(labels, n, n)]

\* Walks parent pointers from current until None.
RECURSIVE ParentChain(_, _)
ParentChain(vis, current) ==
  IF current = None THEN <<>>
  ELSE <<current>> \o ParentChain(vis, vis[current])

Reverse(s) == [i \in 1 .. Len(s) |-> s[Len(s) + 1 - i]]

\* Mutant: the backward walk starts at the intersection itself.
reconstruct_RepeatsIntersection(fvis, bvis, intersection, labels) ==
  LET ids == Reverse(ParentChain(fvis, intersection))
             \o ParentChain(bvis, intersection)
  IN  [i \in 1 .. Len(ids) |-> PathItem(labels, ids[i])]

\* Mutant: the forward walk is not reversed.
reconstruct_NotReversed(fvis, bvis, intersection, labels) ==
  LET ids == ParentChain(fvis, intersection)
             \o ParentChain(bvis, bvis[intersection])
  IN  [i \in 1 .. Len(ids) |-> PathItem(labels, ids[i])]

\* Lines 8-27.
reconstruct_bidirectional_path(fvis, bvis, intersection, labels) ==
  LET forward_path  == Reverse(ParentChain(fvis, intersection))
      backward_path == ParentChain(bvis, bvis[intersection])
      ids == forward_path \o backward_path
  IN  [i \in 1 .. Len(ids) |-> PathItem(labels, ids[i])]

\* Mutant: the one-element path carries the store's label of the node.
TrivialPath_StoreLabel(a) ==
  <<[id |-> a, label |-> IF HasStoreLabel(a) THEN StoreLabel(a) ELSE a]>>

\* "if id1 == id2: return [{id: id1, label: id1}]"
TrivialPath(a) == <<[id |-> a, label |-> a]>>

\* ------------------------------------------------- shortest_path: actions

\* Lines 35-55: the trivial case, the two existence checks (error_print
\* ends the process; a failing query of if_exist leaves shortest_path as an
\* exception), and the initial frontiers. fails1 and fails2 tell whether
\* the first and the second existence query fail.
Call ==
  /\ pc = "call"
  /\ \E fails1, fails2 \in QueryOutcomes(store_flaky) :
       IF id1 = id2
       THEN /\ ~fails1 /\ ~fails2
            /\ outcome' = "path"
            /\ path' = TrivialPath(id1)
            /\ pc' = "done"
            /\ UNCHANGED <<queue, visited, distance, node_labels,
                           store_queries, failed>>
       ELSE IF dgraph_read_raises(fails1)
       THEN /\ ~fails2
            /\ outcome' = "store_failure"
            /\ failed' = TRUE
            /\ store_queries' = store_queries + 1
            /\ pc' = "done"
            /\ UNCHANGED <<path, queue, visited, distance, node_labels>>
       ELSE IF ~if_exist(id1)
       THEN /\ ~fails2
            /\ outcome' = "not_found"
            /\ failed' = fails1
            /\ store_queries' = store_queries + 1
            /\ pc' = "done"
            /\ UNCHANGED <<path, queue, visited, distance, node_labels>>
       ELSE IF dgraph_read_raises(fails2)
       THEN /\ outcome' = "store_failure"
            /\ failed' = TRUE
            /\ store_queries' = store_queries + 2
            /\ pc' = "done"
            /\ UNCHANGED <<path, queue, visited, distance, node_labels>>
       ELSE IF ~if_exist(id2)
       THEN /\ outcome' = "not_found"
            /\ failed' = (fails1 \/ fails2)
            /\ store_queries' = store_queries + 2
            /\ pc' = "done"
            /\ UNCHANGED <<path, queue, visited, distance, node_labels>>
       ELSE /\ queue' = [fwd |-> <<id1>>, bwd |-> <<id2>>]
            /\ visited' = [fwd |-> (id1 :> None), bwd |-> (id2 :> None)]
            /\ distance' = [fwd |-> (id1 :> 0), bwd |-> (id2 :> 0)]
            /\ node_labels' = (id1 :> id1) @@ (id2 :> id2)
            /\ failed' = (fails1 \/ fails2)
            /\ store_queries' = store_queries + 2
            /\ pc' = "loop"
            /\ UNCHANGED <<outcome, path>>
  /\ UNCHANGED <<storeVars, best_path_length, best_intersection,
                 level_left, lvl_intersection, lvl_path_length, queried>>
  /\ UNCHANGED nonPathVars

\* Mutant: the loop is never left, it spins on an empty queue.
LoopHead_Spins ==
  /\ pc = "loop"
  /\ IF LoopCondition(queue.fwd, queue.bwd)
     THEN /\ pc' = "fwd"
          /\ level_left' = Len(queue.fwd)
          /\ lvl_intersection' = None
          /\ lvl_path_length' = Inf
     ELSE UNCHANGED <<pc, level_left, lvl_intersection, lvl_path_length>>
  /\ UNCHANGED <<storeVars, queue, visited, distance, node_labels,
                 best_path_length, best_intersection, outcome, path, queried,
                 store_queries, failed>>
  /\ UNCHANGED nonPathVars

\* Line 57: "while forward_queue and backward_queue", and the entry into
\* the forward level ("if forward_queue" holds whenever the loop is entered).
LoopHead ==
  /\ pc = "loop"
  /\ IF LoopCondition(queue.fwd, queue.bwd)
     THEN /\ pc' = "fwd"
          /\ level_left' = Len(queue.fwd)
          /\ lvl_intersection' = None
          /\ lvl_path_length' = Inf
     ELSE /\ pc' = "after"
          /\ UNCHANGED <<level_left, lvl_intersection, lvl_path_length>>
  /\ UNCHANGED <<storeVars, queue, visited, distance, node_labels,
                 best_path_length, best_intersection, outcome, path, queried,
                 store_queries, failed>>
  /\ UNCHANGED nonPathVars

\* Lines 132-160: one iteration of process_level's loop over the level.
\* Neither process_level nor shortest_path catches anything: the exception
\* of a failing neighbour query (line 142) and the KeyError of an entry
\* without an id (line 154) leave shortest_path.
ProcessNode ==
  /\ pc \in {"fwd", "bwd"}
  /\ level_left > 0
  /\ \E fails \in QueryOutcomes(store_flaky) :
       LET dir == pc
           opp == Opposite(pc)
           current_id == Head(queue[dir])
           path_length == distance[dir][current_id] + distance[opp][current_id]
           better == /\ IsIntersection(current_id, visited[opp])
                     /\ path_length < lvl_path_length
       IN  \E neighbors \in {IF fails THEN <<>>
                              ELSE NeighborsQuery(store, sp_noid, current_id)} :
           \E st \in {VisitNeighbors([vis |-> visited[dir],
                                      dist |-> distance[dir],
                                      q |-> Tail(queue[dir]),
                                      labels |-> node_labels,
                                      raised |-> FALSE],
                                     current_id, neighbors, 1)} :
           /\ lvl_path_length' = IF better THEN path_length ELSE lvl_path_length
           /\ lvl_intersection' = IF better THEN current_id ELSE lvl_intersection
           /\ queried' = Append(queried, <<dir, current_id>>)
           /\ store_queries' = store_queries + 1
           /\ failed' = (failed \/ fails)
           /\ IF dgraph_read_raises(fails)
              THEN /\ outcome' = "store_failure"
                   /\ pc' = "done"
                   /\ queue' = [queue EXCEPT ![dir] = Tail(queue[dir])]
                   /\ UNCHANGED <<visited, distance, node_labels>>
              ELSE /\ outcome' = IF st.raised THEN "key_error" ELSE outcome
                   /\ pc' = IF st.raised THEN "done" ELSE pc
                   /\ queue' = [queue EXCEPT ![dir] = st.q]
                   /\ visited' = [visited EXCEPT ![dir] = st.vis]
                   /\ distance' = [distance EXCEPT ![dir] = st.dist]
                   /\ node_labels' = st.labels
  /\ level_left' = level_left - 1
  /\ UNCHANGED <<storeVars, best_path_length, best_intersection, path>>
  /\ UNCHANGED nonPathVars

\* The best path length and meeting point after a level returned intersection.
BestAfter(intersection) ==
  IF Improves(intersection, distance.fwd, distance.bwd, best_path_length)
  THEN [len |-> distance.fwd[intersection] + distance.bwd[intersection],
        at  |-> intersection]
  ELSE [len |-> best_path_length, at |-> best_intersection]

\* Lines 68-86: the forward level returned; update the best, then enter the
\* backward level ("if backward_queue").
EndForwardLevel ==
  /\ pc = "fwd"
  /\ level_left = 0
  /\ best_path_length' = BestAfter(lvl_intersection).len
  /\ best_intersection' = BestAfter(lvl_intersection).at
  /\ IF queue.bwd # <<>>
     THEN /\ pc' = "bwd"
          /\ level_left' = Len(queue.bwd)
          /\ lvl_intersection' = None
          /\ lvl_path_length' = Inf
     ELSE /\ pc' = IF PruneCondition(queue.fwd, queue.bwd, distance.fwd,
                                     distance.bwd, BestAfter(lvl_intersection).len)
                   THEN "after" ELSE "loop"
          /\ UNCHANGED <<level_left, lvl_intersection, lvl_path_length>>
  /\ UNCHANGED <<storeVars, queue, visited, distance, node_labels,
                 outcome, path, queried, store_queries, failed>>
  /\ UNCHANGED nonPathVars

\* Lines 88-105: the backward level returned; update the best, then the
\* pruning test.
EndBackwardLevel ==
  /\ pc = "bwd"
  /\ level_left = 0
  /\ best_path_length' = BestAfter(lvl_intersection).len
  /\ best_intersection' = BestAfter(lvl_intersection).at
  /\ pc' = IF PruneCondition(queue.fwd, queue.bwd, distance.fwd, distance.bwd,
                             BestAfter(lvl_intersection).len)
           THEN "after" ELSE "loop"
  /\ UNCHANGED <<storeVars, queue, visited, distance, node_labels,
                 level_left, lvl_intersection, lvl_path_length, outcome, path,
                 queried, store_queries, failed>>
  /\ UNCHANGED nonPathVars

\* Lines 107-116: the reconstructed path, or the empty list.
Return ==
  /\ pc = "after"
  /\ IF best_intersection # None
     THEN /\ outcome' = "path"
          /\ path' = reconstruct_bidirectional_path(visited.fwd, visited.bwd,
                                                    best_intersection, node_labels)
     ELSE /\ outcome' = "empty"
          /\ path' = <<>>
  /\ pc' = "done"
  /\ UNCHANGED <<storeVars, queue, visited, distance, node_labels,
                 best_path_length, best_intersection, level_left,
                 lvl_intersection, lvl_path_length, queried, store_queries,
                 failed>>
  /\ UNCHANGED nonPathVars

\* The distance search is not running.
DistIdle ==
  /\ dn_graph = <<>>
  /\ dn_node_id = 0
  /\ dn_distance = 0
  /\ dn_pc = "idle"
  /\ dn_queue = <<>>
  /\ dn_visited = <<>>
  /\ dn_popped = <<>>
  /\ nodes_info = <<>>
  /\ dn_results = [syn |-> <<>>, ant |-> <<>>]
  /\ dn_outcome = "none"
  /\ dn_tree_queries = 0

\* The store graphs and the calls explored.
StorePairs == {{u, v} : u, v \in StoreNodes}
StoreGraphs == {E \in SUBSET StorePairs : Cardinality(E) <= MaxStoreEdges}

\* shortest_path is called; nothing has run.
PathStart ==
  /\ pc = "call"
  /\ queue = [fwd |-> <<>>, bwd |-> <<>>]
  /\ visited = [fwd |-> <<>>, bwd |-> <<>>]
  /\ distance = [fwd |-> <<>>, bwd |-> <<>>]
  /\ node_labels = <<>>
  /\ best_path_length = Inf
  /\ best_intersection = None
  /\ level_left = 0
  /\ lvl_intersection = None
  /\ lvl_path_length = Inf
  /\ outcome = "none"
  /\ path = <<>>
  /\ queried = <<>>
  /\ store_queries = 0
  /\ failed = FALSE
  /\ DistIdle
  /\ SimIdle
  /\ MatchIdle
  /\ BuildIdle

\* A store that answers every query and whose nodes all carry an id.
InitPath ==
  /\ store \in StoreGraphs
  /\ id1 \in Ids
  /\ id2 \in Ids
  /\ store_flaky = FALSE
  /\ sp_noid = {}
  /\ PathStart

NextPath ==
  \/ Call
  \/ LoopHead
  \/ ProcessNode
  \/ EndForwardLevel
  \/ EndBackwardLevel
  \/ Return

SpecPath == InitPath /\ [][NextPath]_vars

\* A store whose queries may fail and that may hold one node without an id.
\* The call names two ids, which a node without one cannot be asked by.
Targets == {2}
NoIdSets == {S \in SUBSET StoreNodes : Cardinality(S) <= 1}

InitPathFaults ==
  /\ store \in StoreGraphs
  /\ id1 \in Roots
  /\ id2 \in Targets
  /\ store_flaky = TRUE
  /\ sp_noid \in {S \in NoIdSets : id1 \notin S /\ id2 \notin S}
  /\ PathStart

SpecPathFaults == InitPathFaults /\ [][NextPath]_vars


\* ------------------------------------------- distance search: the graph

Words == 1 .. NumWords

\* dict[key].append(value), the key created with an empty list when missing
\* (lines 75-78 of process_relationships).
AppendTo(d, k, v) ==
  (k :> Append(DictGet(d, k, <<>>), v)) @@ d

\* Mutant: the edge is inserted in one direction only.
InsertEdge_OneWay(graph, current_id, related_id, is_synonym) ==
  (related_id :> DictGet(graph, related_id, <<>>))
  @@ AppendTo(graph, current_id, <<related_id, is_synonym>>)

\* Lines 75-81 of process_relationships: one discovered relation inserts an
\* edge in both directions.
InsertEdge(graph, current_id, related_id, is_synonym) ==
  AppendTo(AppendTo(graph, current_id, <<related_id, is_synonym>>),
           related_id, <<current_id, is_synonym>>)

\* The graph after the relations rels = <<current, related, is_synonym>>, ...
\* were inserted in that order.
RECURSIVE InsertEdges(_, _, _)
InsertEdges(graph, rels, i) ==
  IF i > Len(rels) THEN graph
  ELSE InsertEdges(InsertEdge(graph, rels[i][1], rels[i][2], rels[i][3]),
                   rels, i + 1)

\* ------------------------------------- find_nodes_at_distance: helpers

\* Position of node n in the visited dict (0 when it is no key).
RECURSIVE IndexOf(_, _, _)
IndexOf(vis, n, i) ==
  IF i > Len(vis) THEN 0
  ELSE IF vis[i].node = n THEN i
  ELSE IndexOf(vis, n, i + 1)

VisitedKeys(vis) == {vis[i].node : i \in 1 .. Len(vis)}
VisitedOf(vis, n) == vis[IndexOf(vis, n, 1)]

\* Mutant: an antonym edge makes the neighbor an antonym, whatever the sign
\* of the node it is reached from.
NeighborSign_AntonymEdgeIsAntonym(is_synonym, is_synonym_edge) ==
  IF is_synonym_edge THEN is_synonym ELSE FALSE

\* Line 101: the neighbor's sign relative to the root.
NeighborSign(is_synonym, is_synonym_edge) ==
  IF is_synonym_edge THEN is_synonym ELSE ~is_synonym

\* Mutant: the queue is used as a stack, new entries go to its front.
ExpandNeighbor_Stack(st, curr_dist, is_synonym, entry) ==
  LET neighbor_id == entry[1]
      neighbor_is_synonym == NeighborSign(is_synonym, entry[2])
      next_dist == curr_dist + 1
      k == IndexOf(st.vis, neighbor_id, 1)
      fresh == [node |-> neighbor_id, dist |-> next_dist,
                signs |-> {neighbor_is_synonym}]
      item == <<neighbor_id, next_dist, neighbor_is_synonym>>
  IN  IF k = 0
      THEN [vis |-> Append(st.vis, fresh), q |-> <<item>> \o st.q]
      ELSE IF next_dist = st.vis[k].dist
      THEN [st EXCEPT !.vis[k].signs = @ \cup {neighbor_is_synonym}]
      ELSE IF next_dist < st.vis[k].dist
      THEN [vis |-> [st.vis EXCEPT ![k] = fresh], q |-> <<item>> \o st.q]
      ELSE st

\* Lines 99-114: one iteration of "for neighbor_id, is_synonym_edge in ...".
\* st holds the visited dict and the queue.
ExpandNeighbor(st, curr_dist, is_synonym, entry) ==
  LET neighbor_id == entry[1]
      neighbor_is_synonym == NeighborSign(is_synonym, entry[2])
      next_dist == curr_dist + 1
      k == IndexOf(st.vis, neighbor_id, 1)
      fresh == [node |-> neighbor_id, dist |-> next_dist,
                signs |-> {neighbor_is_synonym}]
      item == <<neighbor_id, next_dist, neighbor_is_synonym>>
  IN  IF k = 0
      THEN [vis |-> Append(st.vis, fresh), q |-> Append(st.q, item)]
      ELSE IF next_dist = st.vis[k].dist
      THEN [st EXCEPT !.vis[k].signs = @ \cup {neighbor_is_synonym}]
      ELSE IF next_dist < st.vis[k].dist
      THEN [vis |-> [st.vis EXCEPT ![k] = fresh], q |-> Append(st.q, item)]
      ELSE st

\* The loop over the adjacency list, from the i-th entry on; next is the
\* state after one iteration.
RECURSIVE ExpandNeighbors(_, _, _, _, _)
ExpandNeighbors(st, curr_dist, is_synonym, entries, i) ==
  IF i > Len(entries) THEN st
  ELSE CHOOSE after \in
         {ExpandNeighbors(next, curr_dist, is_synonym, entries, i + 1) :
            next \in {ExpandNeighbor(st, curr_dist, is_synonym, entries[i])}} :
         TRUE

\* Mutant: off by one, an entry at the target distance is still expanded.
ReachedDistance_OffByOne(curr_dist, dist) == curr_dist > dist

\* Line 96: "if curr_dist >= distance: continue".
ReachedDistance(curr_dist, dist) == curr_dist >= dist

\* Mutant: the wanted sign is not tested.
RECURSIVE filter_results_AnySign(_, _, _, _, _)
filter_results_AnySign(vis, info, dist, node_id, want_synonyms) ==
  IF vis = <<>> THEN <<>>
  ELSE LET v == Head(vis)
           rest == filter_results_AnySign(Tail(vis), info, dist, node_id,
                                          want_synonyms)
       IN  IF v.dist # dist \/ v.node = node_id THEN rest
           ELSE <<[id |-> v.node, label |-> DictGet(info, v.node, v.node)]>>
                \o rest

\* Mutant: the root is not left out.
RECURSIVE filter_results_KeepsRoot(_, _, _, _, _)
filter_results_KeepsRoot(vis, info, dist, node_id, want_synonyms) ==
  IF vis = <<>> THEN <<>>
  ELSE LET v == Head(vis)
           rest == filter_results_KeepsRoot(Tail(vis), info, dist, node_id,
                                            want_synonyms)
       IN  IF v.dist # dist THEN rest
           ELSE IF want_synonyms \in v.signs
           THEN <<[id |-> v.node, label |-> DictGet(info, v.node, v.node)]>>
                \o rest
           ELSE rest

\* Mutant: a node is emitted only when the wanted sign is its only sign.
RECURSIVE filter_results_OnlySign(_, _, _, _, _)
filter_results_OnlySign(vis, info, dist, node_id, want_synonyms) ==
  IF vis = <<>> THEN <<>>
  ELSE LET v == Head(vis)
           rest == filter_results_OnlySign(Tail(vis), info, dist, node_id, want_synonyms)
       IN  IF v.dist # dist \/ v.node = node_id THEN rest
           ELSE IF v.signs = {want_synonyms}
           THEN <<[id |-> v.node, label |-> DictGet(info, v.node, v.node)]>>
                \o rest
           ELSE rest

\* Lines 119-131. visited is walked in insertion order.
RECURSIVE filter_results(_, _, _, _, _)
filter_results(vis, info, dist, node_id, want_synonyms) ==
  IF vis = <<>> THEN <<>>
  ELSE LET v == Head(vis)
           rest == filter_results(Tail(vis), info, dist, node_id, want_synonyms)
       IN  IF v.dist # dist \/ v.node = node_id THEN rest
           ELSE IF want_synonyms \in v.signs
           THEN <<[id |-> v.node, label |-> DictGet(info, v.node, v.node)]>>
                \o rest
           ELSE rest

\* ------------------------------------- find_nodes_at_distance: actions

\* Lines 134-152 of find_distant_relationships: the existence check
\* (error_print ends the process, outside the try), then the relation-tree
\* query, whose response build_relationship_graph turns into the graph.
FindDistant ==
  /\ dn_pc = "call"
  /\ IF ~if_exist(dn_node_id)
     THEN /\ dn_outcome' = "not_found"
          /\ dn_pc' = "exit"
          /\ UNCHANGED dn_tree_queries
     ELSE /\ dn_tree_queries' = dn_tree_queries + 1
          /\ dn_pc' = "idle"
          /\ UNCHANGED dn_outcome
  /\ UNCHANGED <<dn_graph, dn_node_id, dn_distance, dn_queue, dn_visited,
                 dn_popped, nodes_info, dn_results>>
  /\ UNCHANGED nonDistVars

\* Lines 89-90: the queue and the visited dict hold the root.
StartSearch ==
  /\ dn_pc = "idle"
  /\ dn_queue' = << <<dn_node_id, 0, TRUE>> >>
  /\ dn_visited' = << [node |-> dn_node_id, dist |-> 0, signs |-> {TRUE}] >>
  /\ dn_pc' = "search"
  /\ UNCHANGED <<dn_graph, dn_node_id, dn_distance, dn_popped, nodes_info,
                 dn_results, dn_outcome, dn_tree_queries>>
  /\ UNCHANGED nonDistVars

\* Lines 92-114: one iteration of "while queue".
Pop ==
  /\ dn_pc = "search"
  /\ dn_queue # <<>>
  /\ LET current_id == Head(dn_queue)[1]
         curr_dist == Head(dn_queue)[2]
         is_synonym == Head(dn_queue)[3]
     IN  IF ReachedDistance(curr_dist, dn_distance)
         THEN /\ dn_queue' = Tail(dn_queue)
              /\ UNCHANGED dn_visited
         ELSE \E entries \in {DictGet(dn_graph, current_id, <<>>)} :
              \E st \in {ExpandNeighbors([vis |-> dn_visited,
                                          q |-> Tail(dn_queue)],
                                         curr_dist, is_synonym, entries, 1)} :
                /\ dn_queue' = st.q
                /\ dn_visited' = st.vis
  /\ dn_popped' = Append(dn_popped, Head(dn_queue))
  /\ UNCHANGED <<dn_graph, dn_node_id, dn_distance, dn_pc, nodes_info,
                 dn_results, dn_outcome, dn_tree_queries>>
  /\ UNCHANGED nonDistVars

\* The labels known for the nodes: node n is labelled 10 + n.
WordLabel(n) == 10 + n
\* The label tables explored: every label known, or only those of the odd ids.
LabelTables ==
  {[n \in S |-> WordLabel(n)] : S \in {Words, {m \in Words : m % 2 = 1}}}

\* Line 116 and lines 154-169: the search returns visited, the result is
\* filtered (for synonyms and for antonyms), printed and returned.
Filter ==
  /\ dn_pc = "search"
  /\ dn_queue = <<>>
  /\ \E info \in LabelTables :
       /\ nodes_info' = info
       /\ dn_results' =
            [syn |-> filter_results(dn_visited, info, dn_distance, dn_node_id, TRUE),
             ant |-> filter_results(dn_visited, info, dn_distance, dn_node_id, FALSE)]
  /\ dn_pc' = "done"
  /\ dn_outcome' = "returned"
  /\ UNCHANGED <<dn_graph, dn_node_id, dn_distance, dn_queue, dn_visited,
                 dn_popped, dn_tree_queries>>
  /\ UNCHANGED nonDistVars

\* The shortest path search is not running.
PathIdle ==
  /\ store = {}
  /\ id1 = 0
  /\ id2 = 0
  /\ pc = "idle"
  /\ queue = [fwd |-> <<>>, bwd |-> <<>>]
  /\ visited = [fwd |-> <<>>, bwd |-> <<>>]
  /\ distance = [fwd |-> <<>>, bwd |-> <<>>]
  /\ node_labels = <<>>
  /\ best_path_length = Inf
  /\ best_intersection = None
  /\ level_left = 0
  /\ lvl_intersection = None
  /\ lvl_path_length = Inf
  /\ outcome = "none"
  /\ path = <<>>
  /\ queried = <<>>
  /\ store_flaky = FALSE
  /\ sp_noid = {}
  /\ store_queries = 0
  /\ failed = FALSE

\* The relations a graph is built from: any two node ids (a node may be
\* related to itself, and two nodes may be related several times), either sign.
Relations == {r \in Words \X Words \X BOOLEAN : r[1] <= r[2]}
RECURSIVE SeqsUpTo(_, _)
SeqsUpTo(S, n) ==
  IF n = 0 THEN {<<>>}
  ELSE LET shorter == SeqsUpTo(S, n - 1)
       IN  shorter \cup {Append(q, x) : q \in shorter, x \in S}

\* find_distant is called; nothing has run.
DistStart ==
  /\ dn_pc = "call"
  /\ dn_queue = <<>>
  /\ dn_visited = <<>>
  /\ dn_popped = <<>>
  /\ nodes_info = <<>>
  /\ dn_results = [syn |-> <<>>, ant |-> <<>>]
  /\ dn_outcome = "none"
  /\ dn_tree_queries = 0
  /\ PathIdle
  /\ SimIdle
  /\ MatchIdle
  /\ BuildIdle

\* A root the store does not hold has no relation tree.
InitDist ==
  /\ \/ /\ dn_node_id \in Roots
        /\ dn_graph \in {InsertEdges(<<>>, rels, 1) : rels \in SeqsUpTo(Relations, MaxRelations)}
     \/ /\ dn_node_id \in Ids \ StoreNodes
        /\ dn_graph = <<>>
  /\ dn_distance \in 0 .. MaxDistance
  /\ DistStart

NextDist ==
  \/ FindDistant
  \/ StartSearch
  \/ Pop
  \/ Filter

SpecDist == InitDist /\ [][NextDist]_vars

\* The search over wider graphs: more nodes, so that a level of the search
\* can hold several nodes with nodes of the next level behind them; the
\* relations join different nodes and are met in one fixed order.
NumWideWords == 4
WideWords == 1 .. NumWideWords
WideRelations == {r \in WideWords \X WideWords \X BOOLEAN : r[1] < r[2]}
RelationRank(r) ==
  (r[1] * (NumWideWords + 1) + r[2]) * 2 + (IF r[3] THEN 1 ELSE 0)
WideRelationSeqs ==
  {q \in SeqsUpTo(WideRelations, MaxRelations) :
     \A i \in 1 .. Len(q) - 1 : RelationRank(q[i]) < RelationRank(q[i + 1])}

InitDistWide ==
  /\ dn_node_id \in Roots
  /\ dn_graph \in {InsertEdges(<<>>, rels, 1) : rels \in WideRelationSeqs}
  /\ dn_distance \in 0 .. MaxDistance
  /\ DistStart

SpecDistWide == InitDistWide /\ [][NextDist]_vars

\* ---- the two searches, run to their end

\* Either search is called: shortest_path from the root to a missing id, to
\* the root itself or to another node, or the distance search over a graph
\* whose relations (self-loops and parallel relations included) are met in
\* one fixed order.
LiveTargets == {0} \cup Roots \cup Targets
LiveRelationSeqs ==
  {q \in SeqsUpTo(Relations, MaxRelations) :
     \A i \in 1 .. Len(q) - 1 : RelationRank(q[i]) < RelationRank(q[i + 1])}

InitLive ==
  \/ /\ store \in StoreGraphs
     /\ id1 \in Roots
     /\ id2 \in LiveTargets
     /\ store_flaky = FALSE
     /\ sp_noid = {}
     /\ PathStart
  \/ /\ dn_node_id \in Roots
     /\ dn_graph \in {InsertEdges(<<>>, rels, 1) : rels \in LiveRelationSeqs}
     /\ dn_distance \in 0 .. MaxDistance
     /\ DistStart

\* The search that was called takes its steps.
NextLive ==
  \/ pc # "idle" /\ NextPath
  \/ pc = "idle" /\ NextDist

\* Both searches are sequential code that runs on until it returns.
SpecLive == InitLive /\ [][NextLive]_vars /\ WF_vars(NextLive)


\* ------------------------------------------------ similarity: the store

\* Bounds of the typed store of the similarity matcher.
NumSimNodes == 3
MaxSimEdges == 3

SimNodes == 1 .. NumSimNodes

\* An edge-type value as dgraph_read hands it over: a string, the list a
\* "<;>"-joined facet was split into (process_combined_values), or None
\* when the facet is absent. v holds the characters of the value: the one
\* string, or the elements of the list.
Str(s) == [type |-> "str", v |-> <<s>>]
List(l) == [type |-> "list", v |-> l]
NoneValue == [type |-> "NoneType", v |-> <<>>]

isinstance(x, t) == x.type = t

Elems(l) == {l[i] : i \in DOMAIN l}

\* Mutant: a string matches a list only when the list holds nothing else.
edge_types_match_WholeList(a, b) ==
  IF isinstance(a, "str") /\ isinstance(b, "str")
  THEN a.v = b.v
  ELSE IF isinstance(a, "list") /\ isinstance(b, "list")
  THEN \E i \in DOMAIN a.v : a.v[i] \in Elems(b.v)
  ELSE IF isinstance(a, "str") /\ isinstance(b, "list")
  THEN Elems(b.v) = Elems(a.v)
  ELSE IF isinstance(a, "list") /\ isinstance(b, "str")
  THEN Elems(a.v) = Elems(b.v)
  ELSE FALSE

\* Lines 9-33.
edge_types_match(a, b) ==
  IF isinstance(a, "str") /\ isinstance(b, "str")
  THEN a.v = b.v
  ELSE IF isinstance(a, "list") /\ isinstance(b, "list")
  THEN \E i \in DOMAIN a.v : a.v[i] \in Elems(b.v)
  ELSE IF isinstance(a, "str") /\ isinstance(b, "list")
  THEN a.v[1] \in Elems(b.v)
  ELSE IF isinstance(a, "list") /\ isinstance(b, "str")
  THEN b.v[1] \in Elems(a.v)
  ELSE FALSE

\* ---- edge_types_match called on its own

\* Longest list a "<;>"-joined facet splits into.
MaxListLen == 2

\* The relation ids the facets are made of.
RelationIds == {"kind", "part", "used"}

\* The lists a split yields hold two elements or more.
RECURSIVE ListsOfLen(_)
ListsOfLen(n) ==
  IF n = 0 THEN {<<>>}
  ELSE {Append(l, x) : l \in ListsOfLen(n - 1), x \in RelationIds}
SplitLists == UNION {ListsOfLen(n) : n \in 2 .. MaxListLen}

EdgeTypeValues ==
  {Str(s) : s \in RelationIds} \cup {List(l) : l \in SplitLists} \cup {NoneValue}

CallMatch ==
  /\ em_pc = "call"
  /\ em_result' = edge_types_match(edge_type1, edge_type2)
  /\ em_pc' = "done"
  /\ UNCHANGED <<edge_type1, edge_type2>>
  /\ UNCHANGED nonMatchVars

\* The facet values of the store's edges: one relation, or several relations
\* between the same two nodes joined by the ingestion (rdf_convert.py lines
\* 376-404, which write an id facet on every edge).
EdgeTypes ==
  {Str("kind"), Str("part"), List(<<"kind", "part">>)}

\* The fields id and label of a node's entry: a field is left out when the
\* node does not carry the predicate.
NodeFields(n, noid) ==
  (IF n \in noid THEN <<>> ELSE ("id" :> n))
  @@ (IF HasStoreLabel(n) THEN ("label" :> StoreLabel(n)) ELSE <<>>)

\* "@facets(id)": the facet of the edge, under the key "to|id" or "~to|id".
FacetKey(pred) == IF pred = "to" THEN "to|id" ELSE "~to|id"
FacetField(pred, e) ==
  IF e = NoneValue THEN <<>> ELSE (FacetKey(pred) :> e)

\* The edges of E that leave n along pred: "to" follows an edge, "~to"
\* follows it backwards. Each is <<other node, edge type>>.
Along(E, n, pred) ==
  IF pred = "to" THEN {<<x[2], x[3]>> : x \in {y \in E : y[1] = n}}
  ELSE {<<x[1], x[3]>> : x \in {y \in E : y[2] = n}}

\* The edges in the order of the other node's uid.
RECURSIVE SortedEdges(_)
SortedEdges(S) ==
  IF S = {} THEN <<>>
  ELSE LET m == CHOOSE x \in S : \A y \in S : x[1] <= y[1]
       IN  <<m>> \o SortedEdges(S \ {m})

\* A block "pred @facets(id) { id label }" of the query: the list of the
\* entries, left out of the response when it is empty.
InnerBlock(E, noid, n, pred) ==
  LET s == SortedEdges(Along(E, n, pred))
  IN  IF s = <<>> THEN <<>>
      ELSE (pred :> [i \in 1 .. Len(s) |->
                       NodeFields(s[i][1], noid) @@ FacetField(pred, s[i][2])])

\* A block "outer @facets(id) { id label inner @facets(id) { id label } }".
OuterBlock(E, noid, n, outer, inner) ==
  LET s == SortedEdges(Along(E, n, outer))
  IN  IF s = <<>> THEN <<>>
      ELSE (outer :> [i \in 1 .. Len(s) |->
                        NodeFields(s[i][1], noid) @@ FacetField(outer, s[i][2])
                        @@ InnerBlock(E, noid, s[i][1], inner)])

\* SIMILAR_NODES_QUERY: node_info lists the nodes whose id is the argument.
SimilarNodesQuery(E, noid, id) ==
  IF id \in SimNodes \ noid
  THEN << NodeFields(id, noid) @@ OuterBlock(E, noid, id, "to", "~to")
          @@ OuterBlock(E, noid, id, "~to", "to") >>
  ELSE <<>>

\* ---------------------------------------------- similarity: the matcher

\* Position of the key in the similar_nodes dict (0 when it is no key).
RECURSIVE KeyIndex(_, _, _)
KeyIndex(d, key, i) ==
  IF i > Len(d) THEN 0
  ELSE IF d[i].key = key THEN i
  ELSE KeyIndex(d, key, i + 1)

\* Mutant: evidence equal to an entry already listed is not appended again.
add_to_similar_nodes_Dedup(d, node_id, label, via_node, edge_type) ==
  LET fresh == [key |-> node_id,
                value |-> [id |-> node_id, label |-> label,
                           shared_connections |-> <<>>]]
      withKey == IF KeyIndex(d, node_id, 1) = 0 THEN Append(d, fresh) ELSE d
      k == KeyIndex(withKey, node_id, 1)
      entry == [via_node |-> via_node, edge_type |-> edge_type]
  IN  IF entry \in Elems(withKey[k].value.shared_connections) THEN withKey
      ELSE [withKey EXCEPT ![k].value.shared_connections = Append(@, entry)]

\* Lines 105-120: setdefault, then append.
add_to_similar_nodes(d, node_id, label, via_node, edge_type) ==
  LET fresh == [key |-> node_id,
                value |-> [id |-> node_id, label |-> label,
                           shared_connections |-> <<>>]]
      withKey == IF KeyIndex(d, node_id, 1) = 0 THEN Append(d, fresh) ELSE d
      k == KeyIndex(withKey, node_id, 1)
      entry == [via_node |-> via_node, edge_type |-> edge_type]
  IN  [withKey EXCEPT ![k].value.shared_connections = Append(@, entry)]

\* Mutant: the root is not left out of the inner loop.
InnerStep_KeepsRoot(d, node_id, via, via_type, sub, inner) ==
  LET sub_id == DictGet(sub, "id", None)
      edge_type_sub == DictGet(sub, FacetKey(inner), NoneValue)
  IN  IF edge_types_match(via_type, edge_type_sub)
      THEN add_to_similar_nodes(d, sub_id, DictGet(sub, "label", None),
                                DictGet(via, "id", None), via_type)
      ELSE d

\* Lines 62-75 (and 89-102): one iteration of the inner loop; via is the
\* successor (predecessor) of the root, sub one entry of its inner list.
InnerStep(d, node_id, via, via_type, sub, inner) ==
  LET sub_id == DictGet(sub, "id", None)
      edge_type_sub == DictGet(sub, FacetKey(inner), NoneValue)
  IN  IF sub_id # node_id /\ edge_types_match(via_type, edge_type_sub)
      THEN add_to_similar_nodes(d, sub_id, DictGet(sub, "label", None),
                                DictGet(via, "id", None), via_type)
      ELSE d

RECURSIVE InnerLoop(_, _, _, _, _, _, _)
InnerLoop(d, node_id, via, via_type, subs, inner, j) ==
  IF j > Len(subs) THEN d
  ELSE InnerLoop(InnerStep(d, node_id, via, via_type, subs[j], inner),
                 node_id, via, via_type, subs, inner, j + 1)

\* Lines 55-75 (and 82-102): one iteration of the outer loop.
OuterStep(d, node_id, via, outer, inner) ==
  IF DictGet(via, "id", None) = node_id THEN d
  ELSE InnerLoop(d, node_id, via, DictGet(via, FacetKey(outer), NoneValue),
                 DictGet(via, inner, <<>>), inner, 1)

RECURSIVE OuterLoop(_, _, _, _, _, _)
OuterLoop(d, node_id, vias, outer, inner, i) ==
  IF i > Len(vias) THEN d
  ELSE OuterLoop(OuterStep(d, node_id, vias[i], outer, inner),
                 node_id, vias, outer, inner, i + 1)

\* Lines 51-75.
find_similar_nodes_via_successors(node, d) ==
  OuterLoop(d, DictGet(node, "id", None), DictGet(node, "to", <<>>),
            "to", "~to", 1)

\* Lines 78-102.
find_similar_nodes_via_predecessors(node, d) ==
  OuterLoop(d, DictGet(node, "id", None), DictGet(node, "~to", <<>>),
            "~to", "to", 1)

\* list(similar_nodes.values())
DictValues(d) == [i \in 1 .. Len(d) |-> d[i].value]

\* ---------------------------------------------- similarity: actions

\* Lines 133-139 and fetch_node_data: the one shaped query. When the store
\* answers with no node, error_print is called with one argument; the
\* TypeError is caught at line 149 and error_print ends the process.
FetchNodeData ==
  /\ sim_pc = "call"
  /\ LET nodes == SimilarNodesQuery(sim_store, sim_noid, sim_node_id)
     IN  IF nodes = <<>>
         THEN /\ sim_outcome' = "error"
              /\ sim_pc' = "done"
              /\ UNCHANGED node_data
         ELSE /\ node_data' = nodes[1]
              /\ sim_pc' = "successors"
              /\ UNCHANGED sim_outcome
  /\ UNCHANGED <<sim_store, sim_noid, sim_node_id, similar_nodes, sim_result>>
  /\ UNCHANGED nonSimVars

\* Lines 142-143.
ViaSuccessors ==
  /\ sim_pc = "successors"
  /\ similar_nodes' = find_similar_nodes_via_successors(node_data, <<>>)
  /\ sim_pc' = "predecessors"
  /\ UNCHANGED <<sim_store, sim_noid, sim_node_id, node_data, sim_outcome,
                 sim_result>>
  /\ UNCHANGED nonSimVars

\* Lines 144-147: the predecessors' pass, then format_and_output_results.
ViaPredecessors ==
  /\ sim_pc = "predecessors"
  /\ LET d == find_similar_nodes_via_predecessors(node_data, similar_nodes)
     IN  /\ similar_nodes' = d
         /\ sim_result' = DictValues(d)
  /\ sim_outcome' = "printed"
  /\ sim_pc' = "done"
  /\ UNCHANGED <<sim_store, sim_noid, sim_node_id, node_data>>
  /\ UNCHANGED nonSimVars

\* The stores explored: at most MaxSimEdges typed edges, one per ordered
\* pair of nodes (a uid predicate holds an edge once), at most one node
\* without an id.
SimPairs == SimNodes \X SimNodes
SimStores ==
  UNION {[P -> EdgeTypes] : P \in {Q \in SUBSET SimPairs : Cardinality(Q) <= MaxSimEdges}}
EdgesOf(f) == {<<p[1], p[2], f[p]>> : p \in DOMAIN f}

\* The root asked for. The stores range over every labelling of the nodes.
SimRoots == {n \in SimNodes : \A m \in SimNodes : n <= m}

InitSimilar ==
  /\ sim_store \in {EdgesOf(f) : f \in SimStores}
  /\ sim_noid \in {S \in SUBSET SimNodes : Cardinality(S) <= 1}
  /\ sim_node_id \in SimRoots
  /\ sim_pc = "call"
  /\ node_data = <<>>
  /\ similar_nodes = <<>>
  /\ sim_outcome = "none"
  /\ sim_result = <<>>
  /\ PathIdle
  /\ DistIdle
  /\ MatchIdle
  /\ BuildIdle

NextSimilar ==
  \/ FetchNodeData
  \/ ViaSuccessors
  \/ ViaPredecessors

SpecSimilar == InitSimilar /\ [][NextSimilar]_vars

\* edge_types_match on any two edge-type values.
InitMatch ==
  /\ em_pc = "call"
  /\ edge_type1 \in EdgeTypeValues
  /\ edge_type2 \in EdgeTypeValues
  /\ em_result = FALSE
  /\ PathIdle
  /\ DistIdle
  /\ SimIdle
  /\ BuildIdle

NextMatch == CallMatch

SpecMatch == InitMatch /\ [][NextMatch]_vars


\* ------------------------------------------------ the relation tree builder

\* Largest number of entries (objects and other values) of a relation tree.
MaxTreeNodes == 3

\* A JSON object of the response; d holds its keys and values.
Dict(f) == [type |-> "dict", d |-> f]

\* "k in data" for a dict.
HasKey(data, k) == k \in DOMAIN data.d

\* Mutant: the label is not asked for.
IsProcessed_IdOnly(data) == HasKey(data, "id")

\* Line 39: the object is walked when it carries an id and a label.
IsProcessed(data) == HasKey(data, "id") /\ HasKey(data, "label")

\* Mutant: every entry of a relation list counts as a child.
IsChildWithId_AnyEntry(related) == TRUE

\* Line 66: a child entry is an object with an id.
IsChildWithId(related) == isinstance(related, "dict") /\ HasKey(related, "id")

\* Mutant: the value under a relation key is iterated whatever it is.
IsRelationList_AnyValue(relationships) == TRUE

\* Line 62: the value under a relation key is a list.
IsRelationList(relationships) == isinstance(relationships, "list")

\* The walk's state st is [graph, nodes_info, raised]; raised is set when a
\* statement raises, and the walk then does nothing more.
RECURSIVE extract_nodes_recursive(_, _)
RECURSIVE RelatedLoop(_, _, _, _, _)
RECURSIVE process_relationships(_, _, _, _, _, _)

\* Lines 65-84: one iteration of "for related in relationships".
\* related["id"] raises on a value that is no object or has no id.
RelatedStep(related, current_id, is_synonym, st) ==
  IF ~IsChildWithId(related) THEN st
  ELSE IF ~isinstance(related, "dict") \/ ~HasKey(related, "id")
  THEN [st EXCEPT !.raised = TRUE]
  ELSE LET related_id == related.d["id"]
           info == IF related_id \notin DOMAIN st.nodes_info
                      /\ HasKey(related, "label")
                   THEN (related_id :> related.d["label"]) @@ st.nodes_info
                   ELSE st.nodes_info
           graph == InsertEdge(st.graph, current_id, related_id, is_synonym)
       IN  extract_nodes_recursive(related,
             [st EXCEPT !.nodes_info = info, !.graph = graph])

RelatedLoop(relationships, current_id, is_synonym, st, j) ==
  IF st.raised \/ j > Len(relationships) THEN st
  ELSE RelatedLoop(relationships, current_id, is_synonym,
                   RelatedStep(relationships[j], current_id, is_synonym, st),
                   j + 1)

\* Lines 54-84: "for rel_type in rel_types", from the i-th type on.
\* Iterating a value that is no list raises.
process_relationships(data, current_id, rel_types, is_synonym, st, i) ==
  IF st.raised \/ i > Len(rel_types) THEN st
  ELSE LET rel_type == rel_types[i]
           after ==
             IF ~HasKey(data, rel_type) THEN st
             ELSE IF ~IsRelationList(data.d[rel_type]) THEN st
             ELSE IF ~isinstance(data.d[rel_type], "list")
             THEN [st EXCEPT !.raised = TRUE]
             ELSE RelatedLoop(data.d[rel_type].v, current_id, is_synonym, st, 1)
       IN  process_relationships(data, current_id, rel_types, is_synonym,
                                 after, i + 1)

\* Lines 34-51.
extract_nodes_recursive(data, st) ==
  IF st.raised THEN st
  ELSE IF ~isinstance(data, "dict") THEN st
  ELSE IF ~IsProcessed(data) THEN st
  ELSE IF ~HasKey(data, "id") \/ ~HasKey(data, "label")
  THEN [st EXCEPT !.raised = TRUE]
  ELSE LET current_id == data.d["id"]
           recorded == [st EXCEPT !.nodes_info =
                          (current_id :> data.d["label"]) @@ @]
           synonyms == process_relationships(data, current_id,
                         <<"synonym~", "synonym">>, TRUE, recorded, 1)
       IN  process_relationships(data, current_id,
             <<"antonym~", "antonym">>, FALSE, synonyms, 1)

\* ---- build_relationship_graph: actions

\* Lines 23-26.
BuildStart ==
  /\ bt_pc = "call"
  /\ dn_graph' = <<>>
  /\ nodes_info' = <<>>
  /\ distant_nodes' = DictGet(results, "distant_nodes", <<>>)
  /\ bt_pc' = "loop"
  /\ UNCHANGED <<results, bt_raised>>
  /\ UNCHANGED nonBuildVars

\* Lines 28-29: one iteration of "for node in distant_nodes".
ExtractNode ==
  /\ bt_pc = "loop"
  /\ distant_nodes # <<>>
  /\ LET st == extract_nodes_recursive(Head(distant_nodes),
                 [graph |-> dn_graph, nodes_info |-> nodes_info,
                  raised |-> FALSE])
     IN  /\ dn_graph' = st.graph
         /\ nodes_info' = st.nodes_info
         /\ bt_raised' = st.raised
         /\ bt_pc' = IF st.raised THEN "done" ELSE "loop"
  /\ distant_nodes' = Tail(distant_nodes)
  /\ UNCHANGED results
  /\ UNCHANGED nonBuildVars

\* Line 31.
BuildReturn ==
  /\ bt_pc = "loop"
  /\ distant_nodes = <<>>
  /\ bt_pc' = "done"
  /\ UNCHANGED <<dn_graph, nodes_info, results, distant_nodes, bt_raised>>
  /\ UNCHANGED nonBuildVars

\* ---- the relation trees explored

TreeIds == {"a", "b"}
TreeLabels == {"x"}
RelKinds == {"synonym~", "synonym", "antonym~", "antonym"}

\* A value that is neither an object nor a list (JSON true).
Scalar == [type |-> "bool", b |-> TRUE]

\* The id and label fields of an object, each present or not.
Heads ==
  {idf @@ labelf : idf \in {<<>>} \cup {("id" :> i) : i \in TreeIds},
                   labelf \in {<<>>} \cup {("label" :> l) : l \in TreeLabels}}

\* An object with one relation key, and one with two relation keys that
\* hold one entry each.
ObjectWith(h, k, val) == Dict(h @@ (k :> val))
Fork(h, k1, k2, e1, e2) ==
  Dict(h @@ (k1 :> List(<<e1>>)) @@ (k2 :> List(<<e2>>)))
KindPairs == {x \in RelKinds \X RelKinds : x[1] # x[2]}

\* Entries(n): the entries of at most n values; an entry is an object (with
\* at most two relation keys, each holding a list of at most two entries or
\* a value that is no list) or a value that is no object.
RECURSIVE Objects(_)
RECURSIVE Entries(_)
RECURSIVE RelValues(_)
Entries(n) == IF n <= 0 THEN {} ELSE {Scalar} \cup Objects(n)
RelValues(n) ==
  IF n <= 0 THEN {}
  ELSE {Scalar}
       \cup {List(<<e>>) : e \in Entries(n)}
       \cup {List(<<e1, e2>>) : e1 \in Entries(1), e2 \in Entries(n - 1)}
Objects(n) ==
  IF n <= 0 THEN {}
  ELSE {Dict(h) : h \in Heads}
       \cup {ObjectWith(h, k, val) :
               h \in Heads, k \in RelKinds, val \in RelValues(n - 1)}
       \cup (IF n <= 2 THEN {}
             ELSE {Fork(h, k[1], k[2], e1, e2) :
                     h \in Heads, k \in KindPairs,
                     e1 \in Entries(1), e2 \in Entries(n - 2)})

\* The response that holds the tree of the one node found.
Response(e) == ("distant_nodes" :> <<e>>)

\* The responses explored: no node found, or one tree of at most
\* MaxTreeNodes entries.
InitBuild ==
  /\ \/ results \in {<<>>, ("distant_nodes" :> <<>>), Response(Scalar)}
     \/ \E h \in Heads : results = Response(Dict(h))
     \/ \E h \in Heads, k \in RelKinds, val \in RelValues(MaxTreeNodes - 1) :
          results = Response(ObjectWith(h, k, val))
     \/ \E h \in Heads, k \in KindPairs,
           e1 \in Entries(1), e2 \in Entries(MaxTreeNodes - 2) :
          results = Response(Fork(h, k[1], k[2], e1, e2))
  /\ bt_pc = "call"
  /\ distant_nodes = <<>>
  /\ bt_raised = FALSE
  /\ PathIdle
  /\ DistIdle
  /\ SimIdle
  /\ MatchIdle

NextBuild ==
  \/ BuildStart
  \/ ExtractNode
  \/ BuildReturn

SpecBuild == InitBuild /\ [][NextBuild]_vars

\* Trees in which one id may occur with different labels: a labelled top
\* object with one relation list of one or two children, each child with
\* an id, with or without a label, with or without one child of its own.
NodeLabels == {"x", "y"}
Leaves ==
  {Dict(("id" :> i)) : i \in TreeIds}
    \cup {Dict(("id" :> i) @@ ("label" :> l)) : i \in TreeIds, l \in NodeLabels}
Children ==
  Leaves \cup {ObjectWith(c.d, k, List(<<g>>)) :
                 c \in Leaves, k \in RelKinds, g \in Leaves}

InitBuildLabels ==
  /\ \E i \in TreeIds, l \in NodeLabels, k \in RelKinds, c1 \in Children :
       \/ results = Response(ObjectWith(("id" :> i) @@ ("label" :> l), k,
                                        List(<<c1>>)))
       \/ \E c2 \in Leaves :
            results = Response(ObjectWith(("id" :> i) @@ ("label" :> l), k,
                                          List(<<c1, c2>>)))
  /\ bt_pc = "call"
  /\ distant_nodes = <<>>
  /\ bt_raised = FALSE
  /\ PathIdle
  /\ DistIdle
  /\ SimIdle
  /\ MatchIdle

SpecBuildLabels == InitBuildLabels /\ [][NextBuild]_vars


\* ====================================================== shortest_path claims

\* Reference: unidirectional breadth-first search from a to b over the
\* store graph E; the hop distance, or None when b is not reachable.
RECURSIVE BFSDistance(_, _, _, _, _)
BFSDistance(E, frontier, seen, target, k) ==
  IF target \in frontier THEN k
  ELSE IF frontier = {} THEN None
  ELSE LET next == {m \in StoreNodes : \E n \in frontier : {n, m} \in E} \ seen
       IN  BFSDistance(E, next, seen \cup next, target, k + 1)

ReferenceDistance == BFSDistance(store, {id1}, {id1}, id2, 0)

BothExist == id1 \in StoreNodes /\ id2 \in StoreNodes
Connected == BothExist /\ ReferenceDistance # None

\* C1: for distinct existing connected nodes, the returned path has as many
\* edges as the hop distance found by the reference unidirectional BFS.
C1_PathLengthIsBFSDistance ==
  (pc = "done" /\ id1 # id2 /\ Connected)
    => /\ outcome = "path"
       /\ Len(path) - 1 = ReferenceDistance

\* C1 witness: a path of three edges was returned although the store holds
\* more edges than that path.
C1_Witness ==
  /\ pc = "done"
  /\ id1 # id2
  /\ outcome = "path"
  /\ Len(path) = 4
  /\ Cardinality(store) > 3

\* C4 as claimed: whenever one of the ids does not exist, the call ends with
\* the not-found error.
C4_AnyMissingIdIsNotFound ==
  (pc = "done" /\ ~BothExist) => outcome = "not_found"

\* C4 amended: for two different ids of which at least one does not exist,
\* the call ends with the not-found error, before any frontier is built or
\* any neighbor query is issued; it returns neither a path nor the empty list.
C4_DistinctMissingIdIsNotFound ==
  (pc = "done" /\ id1 # id2 /\ ~BothExist)
    => /\ outcome = "not_found"
       /\ path = <<>>
       /\ queried = <<>>
       /\ queue = [fwd |-> <<>>, bwd |-> <<>>]

\* C4 witness: the second id is missing, the first exists and has neighbors.
C4_Witness ==
  /\ pc = "done"
  /\ id1 \in StoreNodes
  /\ id2 \notin StoreNodes
  /\ UndirectedNeighbors(store, id1) # {}
  /\ outcome = "not_found"

\* Some step of shortest_path can be taken: the call has not ended, and a
\* level never pops from an empty queue.
PathCanStep ==
  \/ pc \in {"call", "loop", "after"}
  \/ /\ pc \in {"fwd", "bwd"}
     /\ level_left >= 0
     /\ level_left <= Len(queue[pc])

\* C5: when both ids exist and lie in different connected components, the
\* search ends with the empty list. It ends: before the end a step can
\* always be taken, and no more neighbor queries are issued than one per
\* node and direction.
C5_DisconnectedReturnsEmpty ==
  (id1 # id2 /\ BothExist /\ ReferenceDistance = None)
    => /\ pc = "done" => (outcome = "empty" /\ path = <<>>)
       /\ pc # "done" => PathCanStep
       /\ Len(queried) <= 2 * NumNodes

\* C5 witness: the empty list was returned after both components, each of
\* more than one node, were explored.
C5_Witness ==
  /\ pc = "done"
  /\ outcome = "empty"
  /\ BothExist
  /\ UndirectedNeighbors(store, id1) \ {id1} # {}
  /\ UndirectedNeighbors(store, id2) \ {id2} # {}

\* C6: a returned non-empty path starts at id1 and ends at id2, every two
\* consecutive elements are neighbors in the store, and a reconstructed path
\* holds the meeting point, follows the forward parent pointers up to it and
\* the backward parent pointers after it.
C6_PathShape ==
  (pc = "done" /\ outcome = "path")
    => /\ path # <<>>
       /\ path[1].id = id1
       /\ path[Len(path)].id = id2
       /\ \A i \in 1 .. Len(path) - 1 : {path[i].id, path[i + 1].id} \in store
       /\ id1 # id2 =>
            \E k \in 1 .. Len(path) :
              /\ path[k].id = best_intersection
              /\ \A i \in 1 .. k - 1 : visited.fwd[path[i + 1].id] = path[i].id
              /\ \A i \in k .. Len(path) - 1 :
                   visited.bwd[path[i].id] = path[i + 1].id

\* C6 witness: a reconstructed path whose meeting point is strictly inside.
C6_Witness ==
  /\ pc = "done"
  /\ outcome = "path"
  /\ Len(path) >= 3
  /\ best_intersection \notin {id1, id2}

\* C7: shortest_path(a, a) returns the one-element list [{id: a, label: a}],
\* for every id a.
C7_SameIdReturnsItself ==
  (pc = "done" /\ id1 = id2)
    => /\ outcome = "path"
       /\ path = <<[id |-> id1, label |-> id1]>>

\* C7 witness: the call with twice the same id, of a node whose store label
\* differs from its id.
C7_Witness ==
  /\ pc = "done"
  /\ id1 = id2
  /\ HasStoreLabel(id1)
  /\ outcome = "path"


\* ===================================================== distance search claims

\* The entries of a node's adjacency list, as a set.
Adjacent(g, n) ==
  LET l == DictGet(g, n, <<>>) IN {l[i] : i \in 1 .. Len(l)}

\* Reference: level by level from the root, the nodes at hop distance k with
\* the signs of all their shortest paths (the sign of a path is true iff it
\* holds an even number of antonym edges). level maps the nodes at distance
\* k to their signs; the result is the set of [node, dist, signs] of every
\* node at distance k or more.
RECURSIVE ReferenceLevels(_, _, _, _)
ReferenceLevels(g, level, seen, k) ==
  IF DOMAIN level = {} THEN {}
  ELSE LET here == {[node |-> n, dist |-> k, signs |-> level[n]] : n \in DOMAIN level}
           reached == {e[1] : e \in UNION {Adjacent(g, n) : n \in DOMAIN level}} \ seen
           next == [m \in reached |->
                      UNION {UNION {{(s <=> e[2]) : s \in level[n]} :
                                     e \in {x \in Adjacent(g, n) : x[1] = m}} :
                             n \in DOMAIN level}]
       IN  here \cup ReferenceLevels(g, next, seen \cup reached, k + 1)

Reference == ReferenceLevels(dn_graph, (dn_node_id :> {TRUE}), {dn_node_id}, 0)

Recorded == {dn_visited[i] : i \in 1 .. Len(dn_visited)}

\* C2: at the end of the search every recorded node carries exactly the
\* signs of its shortest paths from the root.
C2_SignsAreThoseOfShortestPaths ==
  dn_pc = "done" =>
    \A v \in Recorded : \E r \in Reference : r.node = v.node /\ r.signs = v.signs

\* C3: at the end of the search the recorded distance of every node is its
\* minimal hop distance from the root, and the record holds exactly the
\* nodes whose minimal hop distance is at most the target distance.
C3_DistancesAreMinimal ==
  dn_pc = "done" =>
    /\ {[node |-> v.node, dist |-> v.dist] : v \in Recorded}
         = {[node |-> r.node, dist |-> r.dist] :
              r \in {x \in Reference : x.dist <= dn_distance}}
    /\ Len(dn_visited) = Cardinality(VisitedKeys(dn_visited))

\* C3 witness: a node at the target distance was recorded, and a node
\* further away than the target distance exists and was not.
C3_Witness ==
  /\ dn_pc = "done"
  /\ dn_distance >= 1
  /\ \E v \in Recorded : v.dist = dn_distance
  /\ \E r \in Reference : r.dist > dn_distance

\* The graph is a chain of n edges starting at the root: it is connected,
\* the root and one other node have one adjacency entry, every other node
\* of the graph has two, and no node is adjacent to itself.
IsChainFromRoot(n) ==
  /\ n >= 1
  /\ Cardinality(DOMAIN dn_graph) = n + 1
  /\ {r.node : r \in Reference} = DOMAIN dn_graph
  /\ Len(DictGet(dn_graph, dn_node_id, <<>>)) = 1
  /\ Cardinality({m \in DOMAIN dn_graph : Len(dn_graph[m]) = 1}) = 2
  /\ \A m \in DOMAIN dn_graph :
       /\ Len(dn_graph[m]) \in {1, 2}
       /\ \A e \in Adjacent(dn_graph, m) : e[1] # m

\* The far end of the chain, and the number of its antonym edges (every
\* edge has an entry in both directions).
ChainEnd == CHOOSE m \in DOMAIN dn_graph : m # dn_node_id /\ Len(dn_graph[m]) = 1
AntonymEntries ==
  {<<m, i>> \in (DOMAIN dn_graph) \X (1 .. 2) :
     i <= Len(dn_graph[m]) /\ dn_graph[m][i][2] = FALSE}
AntonymEdges == Cardinality(AntonymEntries) \div 2

ResultIds(l) == [i \in 1 .. Len(l) |-> l[i].id]

\* C8: on a chain from the root, searched and filtered at the chain's
\* length, the end node is the only synonym and no antonym when the chain
\* holds an even number of antonym edges, and the only antonym and no
\* synonym when it holds an odd number.
C8_ChainSignIsParity ==
  (dn_pc = "done" /\ IsChainFromRoot(dn_distance))
    => IF AntonymEdges % 2 = 0
       THEN /\ ResultIds(dn_results.syn) = <<ChainEnd>>
            /\ dn_results.ant = <<>>
       ELSE /\ ResultIds(dn_results.ant) = <<ChainEnd>>
            /\ dn_results.syn = <<>>

\* C8 witness: a chain of two antonym edges, whose end is found a synonym.
C8_Witness ==
  /\ dn_pc = "done"
  /\ IsChainFromRoot(2)
  /\ dn_distance = 2
  /\ AntonymEdges = 2
  /\ ResultIds(dn_results.syn) = <<ChainEnd>>

\* What filter_results is to emit for the wanted sign.
Wanted(want) ==
  {v \in Recorded : v.dist = dn_distance /\ v.node # dn_node_id /\ want \in v.signs}

EmitsExactly(l, want) ==
  /\ {l[i].id : i \in 1 .. Len(l)} = {v.node : v \in Wanted(want)}
  /\ Len(l) = Cardinality(Wanted(want))
  /\ \A i \in 1 .. Len(l) :
       l[i].label = IF l[i].id \in DOMAIN nodes_info
                    THEN nodes_info[l[i].id] ELSE l[i].id

\* C9: filter_results emits exactly the recorded nodes at the target
\* distance, other than the root, whose sign set holds the wanted sign, each
\* once, labelled with the known label or else with the id.
C9_FilterEmitsExactly ==
  dn_pc = "done" =>
    /\ EmitsExactly(dn_results.syn, TRUE)
    /\ EmitsExactly(dn_results.ant, FALSE)

\* C9 witness: a node without a known label is emitted as a synonym and not
\* as an antonym, while another recorded node is emitted in neither list.
C9_Witness ==
  /\ dn_pc = "done"
  /\ \E i \in 1 .. Len(dn_results.syn) :
       /\ dn_results.syn[i].id \notin DOMAIN nodes_info
       /\ dn_results.syn[i].id \notin {x.id : x \in {dn_results.ant[j] : j \in 1 .. Len(dn_results.ant)}}
  /\ \E v \in Recorded : v.node # dn_node_id /\ v.dist # dn_distance

\* C10: with target distance 0 both filtered lists are empty.
C10_DistanceZeroIsEmpty ==
  (dn_pc = "done" /\ dn_distance = 0)
    => /\ dn_results.syn = <<>>
       /\ dn_results.ant = <<>>

\* C10 witness: distance 0 searched from a root that has neighbors, one of
\* them itself.
C10_Witness ==
  /\ dn_pc = "done"
  /\ dn_distance = 0
  /\ \E e \in Adjacent(dn_graph, dn_node_id) : e[1] = dn_node_id
  /\ \E e \in Adjacent(dn_graph, dn_node_id) : e[1] # dn_node_id

\* ========================================================= similarity claims

\* The edge-type match rule: equal scalars, two lists with a common element,
\* or a scalar that is an element of the other's list.
IsScalar(x) == x.type = "str"
IsList(x) == x.type = "list"
MatchRule(a, b) ==
  \/ IsScalar(a) /\ IsScalar(b) /\ a = b
  \/ IsList(a) /\ IsList(b) /\ Elems(a.v) \cap Elems(b.v) # {}
  \/ IsScalar(a) /\ IsList(b) /\ a.v[1] \in Elems(b.v)
  \/ IsList(a) /\ IsScalar(b) /\ b.v[1] \in Elems(a.v)

\* C12: edge_types_match(a, b) is true exactly when a and b are equal
\* scalars, or lists with a common element, or a scalar and a list that
\* holds it; it is false in every other case.
C12_MatchIsTheRule ==
  em_pc = "done" => (em_result <=> MatchRule(edge_type1, edge_type2))

\* C12 witness: a scalar matched a list that holds it among other elements.
C12_Witness ==
  /\ em_pc = "done"
  /\ IsScalar(edge_type1)
  /\ IsList(edge_type2)
  /\ Elems(edge_type2.v) # Elems(edge_type1.v)
  /\ em_result

\* ---- the two-hop coincidences of the store

\* The id an entry of node n carries (None when n has no id).
IdOf(n) == IF n \in sim_noid THEN None ELSE n

\* The type of the edge from u to v.
TypeOf(u, v) == (CHOOSE x \in sim_store : x[1] = u /\ x[2] = v)[3]
HasEdge(u, v) == \E x \in sim_store : x[1] = u /\ x[2] = v

\* The successors S of the root through which P coincides with it: the root
\* reaches S via T, and P reaches S via a type that matches T.
CommonSuccessors(P, vias) ==
  {S \in vias : /\ HasEdge(sim_node_id, S)
                /\ HasEdge(P, S)
                /\ MatchRule(TypeOf(sim_node_id, S), TypeOf(P, S))}

\* The predecessors Q of the root through which P coincides with it.
CommonPredecessors(P, vias) ==
  {Q \in vias : /\ HasEdge(Q, sim_node_id)
                /\ HasEdge(Q, P)
                /\ MatchRule(TypeOf(Q, sim_node_id), TypeOf(Q, P))}

\* How often the list l holds the entry e.
Occurrences(l, e) == Cardinality({i \in DOMAIN l : l[i] = e})

\* The entries of the result under the key k.
ResultsOf(k) == {i \in DOMAIN sim_result : sim_result[i].id = k}

\* The evidence of P is one entry per coincidence through the nodes vias.
EvidenceIsPerCoincidence(P, vias) ==
  LET succs == CommonSuccessors(P, vias)
      preds == CommonPredecessors(P, vias)
      viaSucc(S) == [via_node |-> IdOf(S), edge_type |-> TypeOf(sim_node_id, S)]
      viaPred(Q) == [via_node |-> IdOf(Q), edge_type |-> TypeOf(Q, sim_node_id)]
      expected(e) == Cardinality({S \in succs : viaSucc(S) = e})
                     + Cardinality({Q \in preds : viaPred(Q) = e})
  IN  IF succs = {} /\ preds = {}
      THEN ResultsOf(IdOf(P)) = {}
      ELSE /\ Cardinality(ResultsOf(IdOf(P))) = 1
           /\ \A i \in ResultsOf(IdOf(P)) :
                LET l == sim_result[i].shared_connections
                IN  /\ Len(l) = Cardinality(succs) + Cardinality(preds)
                    /\ \A j \in DOMAIN l : Occurrences(l, l[j]) = expected(l[j])

SimilarityResultIs(vias) ==
  (sim_pc = "done" /\ sim_outcome = "printed")
    => /\ ResultsOf(sim_node_id) = {}
       /\ \A P \in SimNodes \ {sim_node_id} : EvidenceIsPerCoincidence(P, vias)

\* C11 as claimed: the evidence of P holds one entry per coincidence
\* through any successor or predecessor of the root.
C11_EvidencePerCoincidence == SimilarityResultIs(SimNodes)

\* C11 amended: the evidence of a node P other than the root X holds exactly
\* one entry {via S, T} per successor S other than X that X reaches via T
\* and P reaches via a matching type, plus one entry {via Q, U} per
\* predecessor Q other than X that reaches X via U and P via a matching
\* type; nothing is deduplicated, and X is never a key.
C11_EvidencePerCoincidenceBeyondRoot ==
  SimilarityResultIs(SimNodes \ {sim_node_id})

\* C11 witness: a node's evidence holds the same entry twice.
C11_Witness ==
  /\ sim_pc = "done"
  /\ sim_outcome = "printed"
  /\ \E i \in DOMAIN sim_result :
       LET l == sim_result[i].shared_connections
       IN  /\ Len(l) = 2
           /\ l[1] = l[2]
           /\ sim_result[i].id # None

\* The root exists, and no other node coincides with it through any of its
\* successors or predecessors.
RootExists == sim_node_id \in SimNodes \ sim_noid
NoCoincidence ==
  \A P \in SimNodes \ {sim_node_id} :
    /\ CommonSuccessors(P, SimNodes) = {}
    /\ CommonPredecessors(P, SimNodes) = {}

\* C13: for an existing root without any two-hop coincidence the matcher
\* completes successfully and its result is empty.
C13_NoCoincidenceIsEmpty ==
  (sim_pc = "done" /\ RootExists /\ NoCoincidence)
    => /\ sim_outcome = "printed"
       /\ sim_result = <<>>

\* C13 witness: the root and another node reach the same successor, via
\* types that do not match.
C13_Witness ==
  /\ sim_pc = "done"
  /\ sim_noid = {}
  /\ NoCoincidence
  /\ \E S, P \in SimNodes \ {sim_node_id} :
       /\ S # P
       /\ HasEdge(sim_node_id, S)
       /\ HasEdge(P, S)
  /\ sim_outcome = "printed"
  /\ sim_result = <<>>
\* ============================================================ builder claims

\* The tree of the response: the entries under "distant_nodes".
TreeEntries == DictGet(results, "distant_nodes", <<>>)

\* The sign of a relation kind: true for the two synonym kinds.
SignOf(k) == k \in {"synonym~", "synonym"}
KindSeq == <<"synonym~", "synonym", "antonym~", "antonym">>

\* An object the walk processes, and a child entry it links.
Walked(e) == isinstance(e, "dict") /\ HasKey(e, "id") /\ HasKey(e, "label")
Linked(e) == isinstance(e, "dict") /\ HasKey(e, "id")

\* The relations of the tree: <<parent id, child id, sign>> for every child
\* entry with an id under a relation list of a processed object, where the
\* objects processed are the top entries and the linked children that
\* carry what the walk asks of an object.
RECURSIVE RelationsUnder(_)
RECURSIVE RelationsIn(_, _, _)
RECURSIVE RelationsOfKinds(_, _)
RelationsIn(e, k, j) ==
  IF j > Len(e.d[k].v) THEN <<>>
  ELSE LET c == e.d[k].v[j]
       IN  (IF Linked(c)
            THEN << <<e.d["id"], c.d["id"], SignOf(k)>> >> \o RelationsUnder(c)
            ELSE <<>>)
           \o RelationsIn(e, k, j + 1)
RelationsOfKinds(e, i) ==
  IF i > Len(KindSeq) THEN <<>>
  ELSE (IF HasKey(e, KindSeq[i]) /\ isinstance(e.d[KindSeq[i]], "list")
        THEN RelationsIn(e, KindSeq[i], 1)
        ELSE <<>>)
       \o RelationsOfKinds(e, i + 1)
RelationsUnder(e) == IF Walked(e) THEN RelationsOfKinds(e, 1) ELSE <<>>

RECURSIVE RelationsOfTree(_)
RelationsOfTree(entries) ==
  IF entries = <<>> THEN <<>>
  ELSE RelationsUnder(Head(entries)) \o RelationsOfTree(Tail(entries))

\* How often the adjacency list of u holds <<v, s>>.
EdgeCount(g, u, v, s) == Occurrences(DictGet(g, u, <<>>), <<v, s>>)

\* C14: the built graph holds, for every child entry with an id under a
\* relation list of a processed object, one adjacency entry in each
\* direction with the sign of the relation kind, and nothing else; it is
\* symmetric.
C14_GraphIsTheRelationsBothWays ==
  (bt_pc = "done" /\ ~bt_raised)
    => LET rels == RelationsOfTree(TreeEntries)
       IN  /\ \A u, v \in TreeIds, s \in BOOLEAN :
                /\ EdgeCount(dn_graph, u, v, s)
                     = Occurrences(rels, <<u, v, s>>)
                       + Occurrences(rels, <<v, u, s>>)
                /\ EdgeCount(dn_graph, u, v, s) = EdgeCount(dn_graph, v, u, s)
           /\ DOMAIN dn_graph
                = {rels[i][1] : i \in DOMAIN rels} \cup {rels[i][2] : i \in DOMAIN rels}

\* C14 witness: a synonym relation and an antonym relation between
\* different nodes were built, one of them to a child without a label.
C14_Witness ==
  /\ bt_pc = "done"
  /\ \E u, v \in TreeIds :
       /\ u # v
       /\ EdgeCount(dn_graph, u, v, TRUE) >= 1
       /\ EdgeCount(dn_graph, v, u, FALSE) >= 1
  /\ \E n \in DOMAIN dn_graph : n \notin DOMAIN nodes_info

\* The tree without its malformed fragments: the entries that are no
\* objects, the child entries without an id and the relation values that
\* are no lists are removed, at every depth.
RECURSIVE PruneEntry(_)
RECURSIVE PruneChildren(_, _)
KeptKeys(e) ==
  {k \in DOMAIN e.d : k \in RelKinds => isinstance(e.d[k], "list")}
PruneChildren(l, j) ==
  IF j > Len(l) THEN <<>>
  ELSE (IF Linked(l[j]) THEN <<PruneEntry(l[j])>> ELSE <<>>)
       \o PruneChildren(l, j + 1)
PruneEntry(e) ==
  Dict([k \in KeptKeys(e) |->
          IF k \in RelKinds THEN List(PruneChildren(e.d[k].v, 1)) ELSE e.d[k]])

RECURSIVE PruneTop(_)
PruneTop(entries) ==
  IF entries = <<>> THEN <<>>
  ELSE (IF isinstance(Head(entries), "dict")
        THEN <<PruneEntry(Head(entries))>> ELSE <<>>)
       \o PruneTop(Tail(entries))

\* The walk over a whole list of top entries.
RECURSIVE WalkAll(_, _)
WalkAll(entries, st) ==
  IF entries = <<>> THEN st
  ELSE WalkAll(Tail(entries), extract_nodes_recursive(Head(entries), st))

\* C18: the builder never raises, and the malformed fragments of the tree
\* contribute nothing: the graph and the labels built are those built from
\* the tree with these fragments removed.
C18_NeverRaisesAndSkipsMalformed ==
  /\ ~bt_raised
  /\ bt_pc = "done"
       => LET clean == WalkAll(PruneTop(TreeEntries),
                         [graph |-> <<>>, nodes_info |-> <<>>, raised |-> FALSE])
          IN  /\ dn_graph = clean.graph
              /\ nodes_info = clean.nodes_info

\* C18 witness: the builder returned for a tree whose top object holds a
\* relation list with a malformed entry before a child with an id, and
\* built an edge.
C18_Witness ==
  /\ bt_pc = "done"
  /\ dn_graph # <<>>
  /\ TreeEntries # <<>>
  /\ Walked(TreeEntries[1])
  /\ \E k \in RelKinds :
       /\ HasKey(TreeEntries[1], k)
       /\ isinstance(TreeEntries[1].d[k], "list")
       /\ Len(TreeEntries[1].d[k].v) = 2
       /\ ~Linked(TreeEntries[1].d[k].v[1])
       /\ Linked(TreeEntries[1].d[k].v[2])

\* C21: an object that carries an id is processed whether or not it carries
\* a label: for every top object with an id, the edge to each child with
\* an id under its relation lists is in the graph.
C21_ObjectWithIdIsWalked ==
  bt_pc = "done"
    => \A i \in 1 .. Len(TreeEntries) :
         LET e == TreeEntries[i]
         IN  Linked(e)
               => \A k \in RelKinds :
                    (HasKey(e, k) /\ isinstance(e.d[k], "list"))
                      => \A j \in 1 .. Len(e.d[k].v) :
                           Linked(e.d[k].v[j])
                             => EdgeCount(dn_graph, e.d["id"],
                                          e.d[k].v[j].d["id"], SignOf(k)) >= 1

\* The labels the walk meets, in its order: the label of each processed
\* object, and before the walk of a child the label of its entry.
RECURSIVE LabelsUnder(_)
RECURSIVE LabelsIn(_, _, _)
RECURSIVE LabelsOfKinds(_, _)
LabelsIn(e, k, j) ==
  IF j > Len(e.d[k].v) THEN <<>>
  ELSE LET c == e.d[k].v[j]
       IN  (IF Linked(c)
            THEN (IF HasKey(c, "label")
                  THEN << <<c.d["id"], c.d["label"]>> >> ELSE <<>>)
                 \o LabelsUnder(c)
            ELSE <<>>)
           \o LabelsIn(e, k, j + 1)
LabelsOfKinds(e, i) ==
  IF i > Len(KindSeq) THEN <<>>
  ELSE (IF HasKey(e, KindSeq[i]) /\ isinstance(e.d[KindSeq[i]], "list")
        THEN LabelsIn(e, KindSeq[i], 1)
        ELSE <<>>)
       \o LabelsOfKinds(e, i + 1)
LabelsUnder(e) ==
  IF Walked(e)
  THEN << <<e.d["id"], e.d["label"]>> >> \o LabelsOfKinds(e, 1)
  ELSE <<>>

RECURSIVE LabelsOfTree(_)
LabelsOfTree(entries) ==
  IF entries = <<>> THEN <<>>
  ELSE LabelsUnder(Head(entries)) \o LabelsOfTree(Tail(entries))

\* The first label met for node n.
FirstLabel(n) ==
  LET met == LabelsOfTree(TreeEntries)
      at == {i \in 1 .. Len(met) : met[i][1] = n}
  IN  met[CHOOSE i \in at : \A j \in at : i <= j][2]

\* C22: a label once recorded is never changed by a later occurrence of
\* the id: the label held for a node at the end is the first one met.
C22_FirstLabelIsKept ==
  bt_pc = "done" => \A n \in DOMAIN nodes_info : nodes_info[n] = FirstLabel(n)

\* ================================================ distance search: the call

\* C15: when the store does not hold the root, the call ends with the
\* not-found error and never returns a result, and no relation-tree query
\* is issued.
C15_MissingRootIsNotFound ==
  dn_node_id \notin StoreNodes
    => /\ dn_tree_queries = 0
       /\ dn_outcome # "returned"
       /\ dn_pc \in {"call", "exit"}
       /\ dn_pc = "exit" => dn_outcome = "not_found"

\* C15 witness: a search to a positive distance ended with the not-found
\* error.
C15_Witness ==
  /\ dn_node_id \notin StoreNodes
  /\ dn_distance > 0
  /\ dn_pc = "exit"
  /\ dn_outcome = "not_found"

\* ============================================ shortest path: store faults

\* C16: once a store query of shortest_path has failed, a neighbour query
\* of the frontier expansion included, the call is over with the failure
\* outcome: it has returned neither a path nor the empty list, the failed
\* neighbour query was issued once, and no step after the failure issues a
\* store query.
FailedQueryIssuedOnce ==
  queried # <<>> => Occurrences(queried, queried[Len(queried)]) = 1

C16_FailureAborts ==
  /\ [](failed => /\ outcome = "store_failure"
                  /\ pc = "done"
                  /\ path = <<>>
                  /\ FailedQueryIssuedOnce)
  /\ [][failed => /\ store_queries' = store_queries
                  /\ queried' = queried]_vars

\* C16 witness: the search had expanded both frontiers when a neighbour
\* query of the backward side failed, and the call ended with the failure.
C16_Witness ==
  /\ failed
  /\ outcome = "store_failure"
  /\ Len(queried) >= 3
  /\ queried[Len(queried)][1] = "bwd"

\* C17: a neighbour entry without an id is skipped by the path finder: it
\* never makes the call fail and never puts a node on a frontier.
C17_EntryWithoutIdIsSkipped ==
  /\ outcome # "key_error"
  /\ \A dir \in {"fwd", "bwd"} :
       \A i \in 1 .. Len(queue[dir]) : queue[dir][i] \in StoreNodes \ sp_noid

\* ============================================ distance search: the queue

\* C19: the distances of the entries popped from the queue never decrease
\* along the run.
C19_PopDistancesNeverDecrease ==
  \A i, j \in 1 .. Len(dn_popped) : i <= j => dn_popped[i][2] <= dn_popped[j][2]

\* C19 witness: the search ended after popping the root, two entries at
\* distance 1 and an entry at distance 2.
C19_Witness ==
  /\ dn_pc = "done"
  /\ Cardinality({i \in 1 .. Len(dn_popped) : dn_popped[i][2] = 1}) >= 2
  /\ \E i \in 1 .. Len(dn_popped) : dn_popped[i][2] = 2

\* C20: a neighbour reached again at its recorded distance gets the sign
\* added to its sign set and an entry enqueued under that sign, so every
\* sign recorded for a node was enqueued with the node at its distance.
Enqueued ==
  {dn_popped[i] : i \in 1 .. Len(dn_popped)}
    \cup {dn_queue[i] : i \in 1 .. Len(dn_queue)}

C20_EveryRecordedSignIsEnqueued ==
  \A k \in 1 .. Len(dn_visited) :
    \A s \in dn_visited[k].signs :
      <<dn_visited[k].node, dn_visited[k].dist, s>> \in Enqueued

\* ============================================ shortest path: the main loop

\* The pruning test holds of the current queues.
Pruned ==
  PruneCondition(queue.fwd, queue.bwd, distance.fwd, distance.bwd,
                 best_path_length)

\* The level being processed is a whole level: the level_left entries at
\* the head of the queue are the rest of one distance, and what is behind
\* them is the next distance.
LevelIsWhole ==
  pc \in {"fwd", "bwd"}
    => LET q == queue[pc]
           dist == distance[pc]
       IN  /\ level_left <= Len(q)
           /\ \A i, j \in 1 .. Len(q) :
                /\ (i <= level_left) = (j <= level_left)
                     => dist[q[i]] = dist[q[j]]
                /\ (i <= level_left /\ level_left < j)
                     => dist[q[j]] = dist[q[i]] + 1

\* C23 as stated: the main loop is left only when both queues are empty or
\* the pruning test fired.
C23_RunsWhileEitherQueue ==
  pc = "after" => (queue.fwd = <<>> /\ queue.bwd = <<>>) \/ Pruned

\* The steps of the main loop: its test, and the order of the two levels.
LoopSteps ==
  /\ pc = "loop"
       => pc' = IF queue.fwd # <<>> /\ queue.bwd # <<>> THEN "fwd" ELSE "after"
  /\ (pc = "loop" /\ pc' = "fwd") => level_left' = Len(queue.fwd)
  /\ (pc = "fwd" /\ pc' # "fwd") => (pc' = "bwd" /\ level_left' = Len(queue.bwd))
  /\ (pc = "bwd" /\ pc' # "bwd") => pc' \in {"loop", "after"}

\* C23, amended: the main loop runs as long as both queues are non-empty
\* and is left as soon as one of them is empty (or the pruning test
\* fired); each iteration processes one whole level of the forward queue
\* and then one whole level of the backward queue.
C23_RunsWhileBothQueues ==
  /\ [](LevelIsWhole)
  /\ [](pc = "after" => (queue.fwd = <<>> \/ queue.bwd = <<>> \/ Pruned))
  /\ [][LoopSteps]_vars

\* C23 witness: after at least one round the loop was left with the forward
\* queue empty while the backward queue still held a node.
C23_Witness ==
  /\ pc = "after"
  /\ queue.fwd = <<>>
  /\ queue.bwd # <<>>
  /\ queried # <<>>

\* The distances of the two queue heads add up to at least best.
HeadsReach(best) ==
  /\ queue.fwd # <<>>
  /\ queue.bwd # <<>>
  /\ distance.fwd[Head(queue.fwd)] + distance.bwd[Head(queue.bwd)] >= best

\* The end of a round, and what follows the end of the loop.
PruneSteps ==
  /\ (pc = "bwd" /\ level_left = 0)
       => (pc' = "after") = HeadsReach(best_path_length')
  /\ pc = "after"
       => (pc' = "done" /\ queue' = queue /\ queried' = queried)

\* C24: when, after a round, the distances of the two queue heads add up
\* to at least the best path length, the search stops: nothing more is
\* popped or queried, and the best path length is the distance between the
\* two nodes, so no shorter path exists.
C24_PruningStopsAtTheShortest ==
  /\ []((pc \in {"after", "done"} /\ HeadsReach(best_path_length))
          => best_path_length = ReferenceDistance)
  /\ [][PruneSteps]_vars

\* C24 witness: the loop was left by the pruning test with a best path of
\* two or more edges.
C24_Witness ==
  /\ pc = "after"
  /\ HeadsReach(best_path_length)
  /\ best_path_length >= 2

\* ======================================== shortest path: the two searches

Dirs == {"fwd", "bwd"}
RootOf(dir) == IF dir = "fwd" THEN id1 ELSE id2

\* The nodes enqueued from a direction so far, in order: those popped (each
\* pop is followed by the node's neighbour query) and those still queued.
PoppedFrom(dir) ==
  LET at == SelectSeq(queried, LAMBDA x : x[1] = dir)
  IN  [i \in 1 .. Len(at) |-> at[i][2]]
EnqueuedFrom(dir) == PoppedFrom(dir) \o queue[dir]

\* In each direction the nodes discovered are those enqueued, each once,
\* and the distance held for a node is its hop distance from the root of
\* that direction.
DiscoveredOnce ==
  \A dir \in Dirs :
    LET enq == EnqueuedFrom(dir)
    IN  /\ \A i, j \in 1 .. Len(enq) : enq[i] = enq[j] => i = j
        /\ {enq[i] : i \in 1 .. Len(enq)} = DOMAIN visited[dir]
        /\ DOMAIN distance[dir] = DOMAIN visited[dir]
        /\ \A n \in DOMAIN visited[dir] :
             distance[dir][n] = BFSDistance(store, {RootOf(dir)}, {RootOf(dir)}, n, 0)

\* A parent and a distance, once assigned, stay.
AssignedStays ==
  \A dir \in Dirs :
    \A n \in DOMAIN visited[dir] :
      /\ n \in DOMAIN visited'[dir]
      /\ visited'[dir][n] = visited[dir][n]
      /\ distance'[dir][n] = distance[dir][n]

\* C25: in each direction a node gets its parent and its distance once, at
\* its first discovery; they never change afterwards, the node is enqueued
\* at most once, and the distance is the minimal hop distance from the
\* direction's root.
C25_AssignedOnceAndMinimal ==
  /\ [](DiscoveredOnce)
  /\ [][AssignedStays]_vars

\* C25 witness: on a store with a cycle, a node was discovered from both
\* directions and a node two hops from the forward root was enqueued.
C25_Witness ==
  /\ pc = "done"
  /\ \E n \in DOMAIN visited.fwd :
       /\ n \in DOMAIN visited.bwd
       /\ n \notin {id1, id2}
  /\ \E n \in DOMAIN distance.fwd : distance.fwd[n] = 2
  /\ Cardinality(store) >= Cardinality(UNION store)

\* ======================================== distance search: the far end

\* Nothing is recorded or enqueued beyond the target distance.
WithinTarget ==
  /\ \A k \in 1 .. Len(dn_visited) : dn_visited[k].dist <= dn_distance
  /\ \A e \in Enqueued : e[2] <= dn_distance

\* Popping an entry at the target distance records and enqueues nothing.
PopAtTarget ==
  (dn_pc = "search" /\ dn_queue # <<>> /\ Head(dn_queue)[2] = dn_distance)
    => (dn_visited' = dn_visited /\ dn_queue' = Tail(dn_queue))

\* C26: an entry popped at the target distance is not expanded, and no
\* node is ever recorded or enqueued at a distance beyond the target.
C26_NothingBeyondTarget ==
  /\ [](WithinTarget)
  /\ [][PopAtTarget]_vars

\* C26 witness: the search ended having popped an entry at a target
\* distance of one or more, a neighbour of which was never recorded.
C26_Witness ==
  /\ dn_pc = "done"
  /\ dn_distance >= 1
  /\ \E i \in 1 .. Len(dn_popped) :
       /\ dn_popped[i][2] = dn_distance
       /\ \E j \in 1 .. Len(dn_graph[dn_popped[i][1]]) :
            dn_graph[dn_popped[i][1]][j][1] \notin VisitedKeys(dn_visited)

\* ========================================================== termination

\* The search that was called is over.
Terminated ==
  \/ pc = "done"
  \/ dn_pc \in {"done", "exit"}

\* C27: on every graph (cycles, self-loops and parallel edges included)
\* and for every target distance the distance search comes to its end, and
\* on every store graph shortest_path comes to its end, every store query
\* returning.
C27_SearchesTerminate == <>Terminated

\* C27 witness: a distance search over a graph with a self-loop and
\* parallel edges of both signs came to its end after two pops or more.
C27_Witness ==
  /\ dn_pc = "done"
  /\ Len(dn_popped) >= 2
  /\ \E n \in DOMAIN dn_graph :
       /\ EdgeCount(dn_graph, n, n, TRUE) + EdgeCount(dn_graph, n, n, FALSE) >= 1
       /\ \E m \in DOMAIN dn_graph :
            /\ m # n
            /\ EdgeCount(dn_graph, n, m, TRUE) >= 1
            /\ EdgeCount(dn_graph, n, m, FALSE) >= 1

\* ======================================= distance search: what is emitted

EmittedIds(l) == {l[i].id : i \in 1 .. Len(l)}

\* C28: for a target distance of one or more, every node other than the
\* root whose minimal hop distance from the root is the target distance is
\* emitted as a synonym or as an antonym (possibly as both), every recorded
\* sign set being non-empty.
C28_EveryNodeAtDistanceIsEmitted ==
  (dn_pc = "done" /\ dn_distance >= 1)
    => /\ \A v \in Recorded : v.signs # {}
       /\ \A r \in Reference :
            (r.dist = dn_distance /\ r.node # dn_node_id)
              => r.node \in EmittedIds(dn_results.syn) \cup EmittedIds(dn_results.ant)

\* C28 witness: at a target distance of two, one node was emitted as both
\* synonym and antonym.
C28_Witness ==
  /\ dn_pc = "done"
  /\ dn_distance = 2
  /\ EmittedIds(dn_results.syn) \cap EmittedIds(dn_results.ant) # {}

\* ======================================= path search: queries per node

\* How many neighbour queries one call has issued for a node from a direction.
QueriesFor(dir, n) == Cardinality({i \in 1 .. Len(queried) : queried[i] = <<dir, n>>})

\* C29: during one call the neighbour query is issued for a node at most
\* once from the forward direction and at most once from the backward
\* direction, hence at most twice for the node.
C29_QueriedOncePerDirection ==
  \A n \in Ids :
    /\ QueriesFor("fwd", n) <= 1
    /\ QueriesFor("bwd", n) <= 1
    /\ QueriesFor("fwd", n) + QueriesFor("bwd", n) <= 2

\* C29 witness: on a store with a cycle the call ended having queried one
\* node from both directions, that node being neither end of the search.
C29_Witness ==
  /\ pc = "done"
  /\ \E a, b, c \in Ids :
       /\ a # b /\ b # c /\ a # c
       /\ {{a, b}, {b, c}, {a, c}} \subseteq store
  /\ \E n \in Ids \ {id1, id2} :
       QueriesFor("fwd", n) = 1 /\ QueriesFor("bwd", n) = 1

\* ======================================= path search: depth of the queries

\* The distance a direction holds for the node of a neighbour query.
QueryDepth(i) == distance[queried[i][1]][queried[i][2]]

\* C30: when a path of D >= 1 edges is returned, every node whose
\* neighbours were queried from a direction has, in that direction, a
\* distance of at most D divided by two, rounded down.
C30_QueriesWithinHalfThePath ==
  (pc = "done" /\ outcome = "path" /\ Len(path) >= 2)
    => \A i \in 1 .. Len(queried) : QueryDepth(i) <= (Len(path) - 1) \div 2

\* C30 witness: a path of three edges was returned after nodes one step
\* from each end had their neighbours queried.
C30_Witness ==
  /\ pc = "done"
  /\ outcome = "path"
  /\ Len(path) = 4
  /\ \A dir \in Dirs :
       \E i \in 1 .. Len(queried) : queried[i][1] = dir /\ QueryDepth(i) = 1

=============================================================================
